---- MODULE Spec2Model ----
(***************************************************************************)
(* PrivacyThink (Bilal140202/Prvdoc): document chunking, the embedding     *)
(* worker pool, local persistence and progress reporting.                  *)
(*                                                                         *)
(* Texts are sequences of one-character strings.  Offsets are 0-based as   *)
(* in the TypeScript source; TLA+ sequences are 1-based, so the character  *)
(* at source offset o is s[o + 1].                                         *)
(***************************************************************************)
EXTENDS Integers, Sequences, FiniteSets, TLC

(***************************************************************************)
(* Program constants.                                                      *)
(***************************************************************************)
CHUNK_SIZE == 1000
OVERLAP == 200
CONCURRENCY_LIMIT == 5
OCR_MIN_CHARS == 50
DEFAULT_MAX_SOURCES == 5
RESPONSE_THRESHOLD == [num |-> 6, den |-> 10]

(***************************************************************************)
(* Bounds of the model.                                                    *)
(***************************************************************************)
MaxBlocks == 4       \* blocks a plain extracted text is assembled from
WordRun == 600       \* length of a long run of non-blank characters
BlankRun == 1000     \* length of a long run of spaces
MaxPages == 2        \* pages of a PDF
MaxPageBlocks == 3   \* blocks the text of one PDF page is assembled from
MaxChunks == 6       \* paragraphs of the text files that are ingested
MaxJobs == 1         \* ingestion jobs started one after the other
MaxStored == 3       \* chunk records of a stored population that is searched
MaxChatStored == 2   \* chunk records of the population a chat runs against
MaxTurns == 1        \* calls of chat / generateResponse made one after the other
MaxBatch == 3        \* files of a batch
MaxLoads == 2        \* calls of llmService.initialize
MaxHistory == 3      \* messages of a stored chat history
MaxTime == 2         \* distinct timestamps of the stored messages
MaxLimit == 3        \* largest limit getChatHistory is called with

(***************************************************************************)
(* Generic helpers.                                                        *)
(***************************************************************************)
Min(S) == CHOOSE x \in S : \A y \in S : x <= y
Max(S) == CHOOSE x \in S : \A y \in S : x >= y

RECURSIVE Flatten(_)
Flatten(ss) == IF ss = <<>> THEN <<>> ELSE Head(ss) \o Flatten(Tail(ss))

SeqsUpTo(S, n) == UNION {[1..k -> S] : k \in 0..n}

(***************************************************************************)
(* JavaScript string primitives used by the document processor.            *)
(***************************************************************************)
\* \s of the regular expressions and String.prototype.trim
IsWs(c) == c \in {" ", "\n"}

IsDigit(c) == c \in {"0", "1", "2", "3", "4", "5", "6", "7", "8", "9"}

DigitVal(c) ==
  CASE c = "0" -> 0 [] c = "1" -> 1 [] c = "2" -> 2 [] c = "3" -> 3
    [] c = "4" -> 4 [] c = "5" -> 5 [] c = "6" -> 6 [] c = "7" -> 7
    [] c = "8" -> 8 [] c = "9" -> 9

\* String.prototype.trim
Trim(s) ==
  LET nz == {i \in 1..Len(s) : ~IsWs(s[i])}
  IN IF nz = {} THEN <<>>
     ELSE SubSeq(s, Min(nz), Len(s) + 1 - Min({Len(s) + 1 - i : i \in nz}))

\* parseInt(digits, 10) on a non-empty run of decimal digits
RECURSIVE ParseInt(_)
ParseInt(ds) ==
  IF ds = <<>> THEN 0 ELSE 10 * ParseInt(SubSeq(ds, 1, Len(ds) - 1)) + DigitVal(ds[Len(ds)])

\* String.prototype.indexOf: 0-based offset of the first occurrence, -1 if none
IndexOf(s, m) ==
  LET occ == {q \in 1..(Len(s) - Len(m) + 1) : s[q] = m[1] /\ SubSeq(s, q, q + Len(m) - 1) = m}
  IN IF occ = {} THEN -1 ELSE Min(occ) - 1

(***************************************************************************)
(* content.split(/\n\s*\n/): the separator found at or after position pos  *)
(* starts at the first newline that is followed, through whitespace only,  *)
(* by another newline, and (\s* is greedy) ends at the last newline of     *)
(* that whitespace run.  <<0, 0>> when there is none.                      *)
(***************************************************************************)
WsRunEnd(s, i) == Min({k \in i..Len(s) : ~IsWs(s[k])} \cup {Len(s) + 1}) - 1

LastNewline(s, i) ==
  LET e == WsRunEnd(s, i)
      nl == {k \in i..e : s[k] = "\n"}
  IN Len(s) + 1 - Min({Len(s) + 1 - k : k \in nl})

NextSeparator(s, pos) ==
  LET starts == {i \in pos..Len(s) : s[i] = "\n" /\ LastNewline(s, i) > i}
  IN IF starts = {} THEN <<0, 0>>
     ELSE <<Min(starts), LastNewline(s, Min(starts))>>

\* The pieces of the split, each with the 0-based offset `at` it was cut from.
RECURSIVE SplitFrom(_, _)
SplitFrom(s, pos) ==
  LET m == NextSeparator(s, pos)
  IN IF m[1] = 0
     THEN << [text |-> SubSeq(s, pos, Len(s)), at |-> pos - 1] >>
     ELSE << [text |-> SubSeq(s, pos, m[1] - 1), at |-> pos - 1] >> \o SplitFrom(s, m[2] + 1)

\* content.split(/\n\s*\n/).filter(p => p.trim().length > 0)
Paragraphs(content) == SelectSeq(SplitFrom(content, 1), LAMBDA p : Len(Trim(p.text)) > 0)

(***************************************************************************)
(* PrivacyDocumentProcessor.chunkDocument                                  *)
(***************************************************************************)
\* An embedding that has not been assigned (chunk.embedding === undefined)
NoEmbedding == [some |-> FALSE, vec |-> <<>>]
SomeEmbedding(v) == [some |-> TRUE, vec |-> v]

\* paragraphStart += CHUNK_SIZE - OVERLAP
Stride == CHUNK_SIZE - OVERLAP

\* startIndex += paragraph.length
NextCursorStuck(startIndex, paragraph) == startIndex
NextCursor(startIndex, paragraph) == startIndex + Len(paragraph)

\* The while loop over one paragraph longer than CHUNK_SIZE.  `origin` is
\* the offset in the whole text the window was really cut from; it is not
\* a field of DocumentChunk and is dropped by ChunkDocument.
RECURSIVE Windows(_, _, _)
Windows(p, paragraphStart, startIndex) ==
  IF ~(paragraphStart < Len(p.text)) THEN <<>>
  ELSE LET endIndex == IF paragraphStart + CHUNK_SIZE < Len(p.text)
                       THEN paragraphStart + CHUNK_SIZE ELSE Len(p.text)
           chunkContent == Trim(SubSeq(p.text, paragraphStart + 1, endIndex))
           rest == Windows(p, paragraphStart + Stride, startIndex)
       IN IF chunkContent # <<>>
          THEN << [content |-> chunkContent,
                   startIndex |-> startIndex + paragraphStart,
                   endIndex |-> startIndex + endIndex,
                   origin |-> p.at + paragraphStart] >> \o rest
          ELSE rest

\* The for loop over the paragraphs, with the running startIndex cursor.
RECURSIVE ChunkParagraphs(_, _, _)
ChunkParagraphs(ps, k, startIndex) ==
  IF k > Len(ps) THEN <<>>
  ELSE LET p == ps[k]
       IN (IF Len(p.text) <= CHUNK_SIZE
           THEN << [content |-> Trim(p.text),
                    startIndex |-> startIndex,
                    endIndex |-> startIndex + Len(p.text),
                    origin |-> p.at] >>
           ELSE Windows(p, 0, startIndex))
          \o ChunkParagraphs(ps, k + 1, NextCursor(startIndex, p.text))

RawChunks(content) == ChunkParagraphs(Paragraphs(content), 1, 0)

(***************************************************************************)
(* PrivacyDocumentProcessor.addPageNumbers                                 *)
(***************************************************************************)
MarkerHead == <<"-", "-", "-", " ", "P", "a", "g", "e", " ">>
MarkerTail == <<" ", "-", "-", "-">>

\* Length of the match of /--- Page (\d+) ---/ that starts at position p, 0 if none
MatchAt(s, p) ==
  IF ~(p + Len(MarkerHead) <= Len(s) /\ s[p] = "-"
       /\ SubSeq(s, p, p + Len(MarkerHead) - 1) = MarkerHead)
  THEN 0
  ELSE LET d0 == p + Len(MarkerHead)
           dEnd == Min({k \in d0..Len(s) : ~IsDigit(s[k])} \cup {Len(s) + 1})
       IN IF dEnd > d0 /\ dEnd + Len(MarkerTail) - 1 <= Len(s)
             /\ SubSeq(s, dEnd, dEnd + Len(MarkerTail) - 1) = MarkerTail
          THEN dEnd + Len(MarkerTail) - p
          ELSE 0

\* content.match(/--- Page (\d+) ---/g) || []
RECURSIVE MarkersFrom(_, _)
MarkersFrom(s, pos) ==
  LET hits == {p \in pos..Len(s) : s[p] = "-" /\ MatchAt(s, p) > 0}
  IN IF hits = {} THEN <<>>
     ELSE LET p == Min(hits)
          IN << SubSeq(s, p, p + MatchAt(s, p) - 1) >> \o MarkersFrom(s, p + MatchAt(s, p))

PageMarkers(content) == MarkersFrom(content, 1)

\* pageStarts: { page: parseInt(pageMatch[1], 10), index: content.indexOf(marker) }
PageStarts(content) ==
  LET ms == PageMarkers(content)
  IN [i \in 1..Len(ms) |->
        [page |-> ParseInt(SubSeq(ms[i], Len(MarkerHead) + 1, Len(ms[i]) - Len(MarkerTail))),
         index |-> IndexOf(content, ms[i])]]

\* The backward scan: the last pageStart whose index is <= chunkStart, else 1
PageOf(pageStarts, chunkStart) ==
  LET at == {i \in 1..Len(pageStarts) : chunkStart >= pageStarts[i].index}
  IN IF at = {} THEN 1 ELSE pageStarts[Max(at)].page

AddPageNumbers(chunks, content) ==
  LET pageStarts == PageStarts(content)
  IN [i \in 1..Len(chunks) |->
        [chunks[i] EXCEPT !.page = PageOf(pageStarts, chunks[i].startIndex)]]

\* chunkDocument(content, document); chunk ids are generateId() values, taken
\* in push order starting with idBase.  page 0 stands for `undefined`.
ChunkDocument(content, document, idBase) ==
  LET raw == RawChunks(content)
      chunks == [i \in 1..Len(raw) |->
                   [id |-> idBase + i - 1,
                    documentId |-> document.id,
                    content |-> raw[i].content,
                    startIndex |-> raw[i].startIndex,
                    endIndex |-> raw[i].endIndex,
                    page |-> 0,
                    embedding |-> NoEmbedding]]
  IN IF document.type = "pdf" THEN AddPageNumbers(chunks, content) ELSE chunks

\* For chunk i, the offset of the whole text its window was cut from.
ChunkOrigins(content) == LET raw == RawChunks(content) IN [i \in 1..Len(raw) |-> raw[i].origin]

(***************************************************************************)
(* Extracted texts the chunker is exercised on.                            *)
(***************************************************************************)
Block(b) ==
  CASE b = "x" -> <<"x">>
    [] b = "s" -> <<" ">>
    [] b = "n" -> <<"\n">>
    [] b = "p" -> <<"\n", "\n">>
    [] b = "X" -> [i \in 1..WordRun |-> "x"]
    [] b = "S" -> [i \in 1..BlankRun |-> " "]

TextOf(bs) == Flatten([i \in 1..Len(bs) |-> Block(bs[i])])

PlainTexts == {TextOf(bs) : bs \in SeqsUpTo({"x", "s", "n", "X", "S"}, MaxBlocks)}

PageTexts == {TextOf(bs) : bs \in SeqsUpTo({"x", "p"}, MaxPageBlocks)}

RECURSIVE Digits(_)
Digits(n) ==
  LET d == <<"0", "1", "2", "3", "4", "5", "6", "7", "8", "9">>
  IN IF n < 10 THEN << d[n + 1] >> ELSE Digits(n \div 10) \o << d[(n % 10) + 1] >>

\* processPDF: every page with non-blank text contributes
\* `\n\n--- Page ${pageNum} ---\n${pageText}`; the join is trimmed.
PdfPage(pageNum, pageText) ==
  IF Trim(pageText) # <<>>
  THEN <<"\n", "\n">> \o MarkerHead \o Digits(pageNum) \o MarkerTail \o <<"\n">> \o pageText
  ELSE <<>>

PdfContent(pageTexts) == Trim(Flatten([i \in 1..Len(pageTexts) |-> PdfPage(i, pageTexts[i])]))

PdfTexts == {PdfContent(pts) : pts \in UNION {[1..k -> PageTexts] : k \in 1..MaxPages}}

(***************************************************************************)
(* Files that are ingested.  A file has a MIME type, a name extension, a   *)
(* text body (what file.text() yields) and, for a PDF, the text pdf.js     *)
(* finds on each page.                                                     *)
(***************************************************************************)
RECURSIVE ParagraphsText(_)
ParagraphsText(k) ==
  IF k = 0 THEN <<>>
  ELSE IF k = 1 THEN <<"x">>
  ELSE ParagraphsText(k - 1) \o <<"\n", "\n", "x">>

ShortPage == <<"x">>
LongPage == [i \in 1..OCR_MIN_CHARS |-> "x"]

TxtFiles ==
  {[name |-> "notes.txt", mime |-> "text/plain", ext |-> "txt",
    body |-> ParagraphsText(k), pages |-> <<>>] : k \in 0..MaxChunks}
PdfFiles ==
  {[name |-> "scan.pdf", mime |-> "application/pdf", ext |-> "pdf",
    body |-> <<>>, pages |-> ps] :
     ps \in UNION {[1..k -> {ShortPage, LongPage}] : k \in 1..MaxPages}}
OtherFiles ==
  {[name |-> "photo.png", mime |-> "image/png", ext |-> "png", body |-> <<>>, pages |-> <<>>],
   [name |-> "data.zip", mime |-> "application/zip", ext |-> "zip", body |-> <<>>, pages |-> <<>>]}
Files == TxtFiles \cup PdfFiles \cup OtherFiles

NoFile == [name |-> "", mime |-> "", ext |-> "", body |-> <<>>, pages |-> <<>>]

\* What tesseract may recognise on a rendered page ('' when OCR fails)
OcrTexts == {<<>>, <<"x">>}

\* llmService.generateEmbedding: the embedder is a function of the text
Embedder(text) == << (Len(text) % 2) + 1, 1 >>

(***************************************************************************)
(* State.                                                                  *)
(***************************************************************************)
VARIABLES
  content, docType, chunks, cpc,   \* chunking specification
  nextId,            \* source of generateId() values
  njobs,             \* ingestion jobs started so far
  pc,                \* where ragService.processDocument is suspended
  file,              \* the file of the job
  doc,               \* the Document built by documentProcessor.processDocument
  pages,             \* per PDF page: "loading", "ocr", "done" or "failed"
  pageText,          \* per PDF page: the string the page task returned
  pagesProcessed,    \* processPDF's counter
  queue,             \* the shared work queue (indices into doc.chunks)
  inflight,          \* chunks whose generateEmbedding call is pending
  workersDone,       \* processNext() promises that resolved
  workersFailed,     \* processNext() promises that rejected
  completedChunks,   \* the shared progress counter
  outcome,           \* "none", "resolved" or "rejected"
  err,               \* the error processDocument rejected with
  trigger,           \* the first error raised in the job
  events,            \* progress events delivered to the callback, in order
  saveInvoked,       \* storageService.saveDocument has been called by the job
  jobBase,           \* first id generated by the job
  embedCalls,        \* per chunk: generateEmbedding calls made for it by the job
  documents,         \* object store 'documents'
  chunkStore,        \* object store 'chunks'
  deletedChunks,     \* ids of the chunks of the documents deleted so far
  txPuts,            \* put requests completed in saveDocument's open transaction
  spc,               \* search specification: "off", "start", "done", "rejected"
  searchCall,        \* the call made: operation, query embedding and options
  scan,              \* searchChunks: the similarity computed for each embedded chunk
  hits,              \* the chunks storageService.searchChunks returned
  searchResult,      \* the SearchResult ragService.searchDocuments returned
  hpc,               \* where chat / generateResponse is suspended
  turn,              \* calls of chat / generateResponse started so far
  entry,             \* the method that was called: "chat" or "generateResponse"
  chatHistory,       \* object store 'chat_history', in the order of the puts
  nextMsg,           \* source of the ids of chat messages
  hIds,              \* options.documentIds of the call
  hq,                \* the query embedding searchDocuments obtained
  hchunks,           \* searchResults.chunks
  hdocMap,           \* keys of documentMap
  hi,                \* index of the chunk the current loop is at
  hsources,          \* sources built so far
  hfailure,          \* what failed first in the call ("" if nothing)
  hreturned,         \* the ChatMessage the call returned
  docLookups,        \* documentIds getDocument was called with, in order
  bpc,               \* batch specification: "off", "idle", "running", "returned", "failed"
  caller,            \* whose batch loop runs: ragService, documentProcessor or App
  batch,             \* the files of the batch call
  bi,                \* index of the file whose processDocument call is awaited
  attempts,          \* indices of the files processDocument was called for, in order
  resolved,          \* indices of the files whose processDocument call resolved
  results,           \* the documents collected: results / documents / the UI's list
  uiError,           \* App: setError was called
  batchNextId,       \* source of generateId() values in the batch specification
  lpc,               \* model-loading specification: "off" or "on"
  cacheRetry,        \* TRUE: initialize(modelName, retry = true) of the retrying service
  textGenerator,     \* llmService.textGenerator: the model it was built for, or NoModel
  embedder,          \* llmService.embedder !== null
  currentModel,      \* llmService.currentModel
  isLoading,         \* llmService.isLoading
  progressStatus,    \* llmService.downloadProgress?.status ("null" when there is none)
  loads,             \* the llmService.initialize calls made so far, in call order
  rpc,               \* ragService.initialize: "idle", "storage", "llm", "resolved", "rejected"
  ragLoad,           \* index in loads of the call ragService.initialize awaits (0: none)
  dbOpen,            \* storageService.db !== null
  gpc,               \* chat-history specification: "off", "stored", "returned"
  chatStore,         \* the chat_history store, in key order
  gLimit,            \* the argument of getChatHistory
  gHistory           \* what getChatHistory returned

cvars == <<content, docType, chunks, cpc>>
jvars == <<nextId, njobs, pc, file, doc, pages, pageText, pagesProcessed, queue, inflight,
           workersDone, workersFailed, completedChunks, outcome, err, trigger, events,
           saveInvoked, jobBase, embedCalls>>
svars == <<documents, chunkStore, deletedChunks, txPuts>>
qvars == <<spc, searchCall, scan, hits, searchResult>>
hvars == <<hpc, turn, entry, chatHistory, nextMsg, hIds, hq, hchunks, hdocMap, hi, hsources,
           hfailure, hreturned, docLookups>>
bvars == <<bpc, caller, batch, bi, attempts, resolved, results, uiError, batchNextId>>
lvars == <<lpc, cacheRetry, textGenerator, embedder, currentModel, isLoading, progressStatus,
           loads, rpc, ragLoad, dbOpen>>
gvars == <<gpc, chatStore, gLimit, gHistory>>
ovars == <<qvars, hvars, bvars, lvars, gvars>>
vars == <<cvars, jvars, svars, ovars>>

NoDoc == [id |-> 0, name |-> "", type |-> "", chunks |-> <<>>]
NoError == [stage |-> "", cause |-> 0, wrapped |-> FALSE]

InitJob ==
  /\ nextId = 1
  /\ njobs = 0
  /\ pc = "idle"
  /\ file = NoFile
  /\ doc = NoDoc
  /\ pages = <<>>
  /\ pageText = <<>>
  /\ pagesProcessed = 0
  /\ queue = <<>>
  /\ inflight = {}
  /\ workersDone = 0
  /\ workersFailed = 0
  /\ completedChunks = 0
  /\ outcome = "none"
  /\ err = NoError
  /\ trigger = NoError
  /\ events = <<>>
  /\ saveInvoked = FALSE
  /\ jobBase = 1
  /\ embedCalls = <<>>

InitStore ==
  /\ documents = {}
  /\ chunkStore = {}
  /\ deletedChunks = {}
  /\ txPuts = 0

NoCall == [op |-> "", q |-> <<>>, topK |-> 0, threshold |-> [num |-> 0, den |-> 1],
           documentIds |-> {}, chunkTopK |-> 0, chunkThreshold |-> [num |-> 0, den |-> 1]]
NoResult == [chunks |-> <<>>, totalResults |-> 0,
             maxRelevanceScore |-> [nan |-> FALSE, dot |-> 0, nn |-> 1],
             averageRelevanceScore |-> [terms |-> <<>>, count |-> 1]]

InitSearchOff ==
  /\ spc = "off"
  /\ searchCall = NoCall
  /\ scan = <<>>
  /\ hits = <<>>
  /\ searchResult = NoResult

NoMessage == [id |-> 0, role |-> "", kind |-> "", cause |-> "", sources |-> <<>>, turn |-> 0]

InitChatOff ==
  /\ hpc = "off"
  /\ turn = 0
  /\ entry = ""
  /\ chatHistory = <<>>
  /\ nextMsg = 1
  /\ hIds = {}
  /\ hq = <<>>
  /\ hchunks = <<>>
  /\ hdocMap = {}
  /\ hi = 0
  /\ hsources = <<>>
  /\ hfailure = ""
  /\ hreturned = NoMessage
  /\ docLookups = <<>>

InitBatchOff ==
  /\ bpc = "off"
  /\ caller = ""
  /\ batch = <<>>
  /\ bi = 0
  /\ attempts = <<>>
  /\ resolved = {}
  /\ results = <<>>
  /\ uiError = FALSE
  /\ batchNextId = 1

NoModel == "null"

InitLoadOff ==
  /\ lpc = "off"
  /\ cacheRetry = FALSE
  /\ textGenerator = NoModel
  /\ embedder = FALSE
  /\ currentModel = NoModel
  /\ isLoading = FALSE
  /\ progressStatus = "null"
  /\ loads = <<>>
  /\ rpc = "idle"
  /\ ragLoad = 0
  /\ dbOpen = FALSE

InitHistoryOff ==
  /\ gpc = "off"
  /\ chatStore = <<>>
  /\ gLimit = 0
  /\ gHistory = <<>>

InitOther == InitSearchOff /\ InitChatOff /\ InitBatchOff /\ InitLoadOff /\ InitHistoryOff


(***************************************************************************)
(* Chunking specification: one extracted text, chunked once.               *)
(***************************************************************************)
InitChunk ==
  /\ \/ content \in PlainTexts /\ docType \in {"txt"}
     \/ content \in PdfTexts /\ docType \in {"pdf"}
  /\ chunks = <<>>
  /\ cpc = "start"
  /\ InitJob
  /\ InitStore
  /\ InitOther

Chunk ==
  /\ cpc = "start"
  /\ chunks' = ChunkDocument(content, [id |-> 1, type |-> docType], 2)
  /\ cpc' = "done"
  /\ UNCHANGED <<content, docType, jvars, svars, ovars>>

NextChunk == Chunk

SpecChunk == InitChunk /\ [][NextChunk]_vars

(***************************************************************************)
(* PrivacyStorageService: similarity search over the stored chunks.        *)
(* A similarity is kept exactly, as dot / sqrt(nn); nan marks 0 / 0.       *)
(* A threshold is a rational num / den with den > 0.                       *)
(***************************************************************************)
RECURSIVE Dot(_, _)
Dot(a, b) == IF a = <<>> THEN 0 ELSE a[1] * b[1] + Dot(Tail(a), Tail(b))

\* cosineSimilarity(a, b)
CosineSimilarity(a, b) ==
  IF Len(a) # Len(b) THEN [nan |-> FALSE, dot |-> 0, nn |-> 1]
  ELSE IF Dot(a, a) * Dot(b, b) = 0 THEN [nan |-> TRUE, dot |-> 0, nn |-> 1]
  ELSE [nan |-> FALSE, dot |-> Dot(a, b), nn |-> Dot(a, a) * Dot(b, b)]

\* result.similarity >= threshold (false for NaN)
SimGE(sim, t) ==
  /\ ~sim.nan
  /\ IF t.num <= 0
     THEN sim.dot >= 0 \/ sim.dot * sim.dot * t.den * t.den <= t.num * t.num * sim.nn
     ELSE sim.dot > 0 /\ sim.dot * sim.dot * t.den * t.den >= t.num * t.num * sim.nn

\* x.similarity < y.similarity, for similarities that are not NaN
SimLess(x, y) ==
  IF x.dot < 0 /\ y.dot >= 0 THEN TRUE
  ELSE IF x.dot >= 0 /\ y.dot < 0 THEN FALSE
  ELSE IF x.dot >= 0 THEN x.dot * x.dot * y.nn < y.dot * y.dot * x.nn
  ELSE x.dot * x.dot * y.nn > y.dot * y.dot * x.nn

\* db.getAll(store): the records in ascending key order
RECURSIVE GetAll(_)
GetAll(store) ==
  IF store = {} THEN <<>>
  ELSE LET first == CHOOSE r \in store : \A o \in store : r.id <= o.id
       IN << first >> \o GetAll(store \ {first})

\* .sort((a, b) => b.similarity - a.similarity): stable, descending
KeepOrder(rs) == rs
RECURSIVE SortBySimilarity(_)
SortBySimilarity(rs) ==
  IF rs = <<>> THEN <<>>
  ELSE LET sorted == SortBySimilarity(SubSeq(rs, 1, Len(rs) - 1))
           r == rs[Len(rs)]
           k == Cardinality({i \in 1..Len(sorted) : ~SimLess(sorted[i].similarity, r.similarity)})
       IN SubSeq(sorted, 1, k) \o << r >> \o SubSeq(sorted, k + 1, Len(sorted))

\* searchChunks(queryEmbedding, topK, threshold)
SearchChunksUncut(store, queryEmbedding, topK, threshold) ==
  LET allChunks == GetAll(store)
      scored == [i \in 1..Len(allChunks) |->
                   [chunk |-> allChunks[i],
                    similarity |-> CosineSimilarity(queryEmbedding, allChunks[i].embedding)]]
      kept == SelectSeq(scored, LAMBDA r : SimGE(r.similarity, threshold))
      ranked == SortBySimilarity(kept)
  IN [i \in 1..Len(ranked) |-> ranked[i].chunk]
SearchChunks(store, queryEmbedding, topK, threshold) ==
  LET allChunks == GetAll(store)
      embedded == SelectSeq(allChunks, LAMBDA c : Len(c.embedding) > 0)
      scored == [i \in 1..Len(embedded) |->
                   [chunk |-> embedded[i],
                    similarity |-> CosineSimilarity(queryEmbedding, embedded[i].embedding)]]
      kept == SelectSeq(scored, LAMBDA r : SimGE(r.similarity, threshold))
      ranked == SortBySimilarity(kept)
      top == SubSeq(ranked, 1, IF topK < Len(ranked) THEN topK ELSE Len(ranked))
  IN [i \in 1..Len(top) |-> top[i].chunk]

(***************************************************************************)
(* Progress reporting.  A progress value is the rational num / den.        *)
(***************************************************************************)
\* updateProgress(stage, progress, message), of the document processor and of
\* the RAG service alike: both deliver to the callback ragService.setProgressCallback
\* registered, clamping progress to 0..100.
UpdateProgress(evs, stage, num, den) ==
  Append(evs, [stage |-> stage,
               num |-> IF num < 0 THEN 0 ELSE IF num > 100 * den THEN 100 * den ELSE num,
               den |-> den])

\* The catch block of documentProcessor.processDocument followed by the catch
\* block of ragService.processDocument: each reports stage 'error'.
ErrorInProcessor(evs) == UpdateProgress(UpdateProgress(evs, "error", 0, 1), "error", 0, 1)

\* The catch block of ragService.processDocument alone.
ErrorInRag(evs) == UpdateProgress(evs, "error", 0, 1)

(***************************************************************************)
(* documentProcessor.processDocument                                       *)
(***************************************************************************)
DetectDocumentType(f) ==
  IF f.mime = "application/pdf" \/ f.ext = "pdf" THEN "pdf"
  ELSE IF f.mime = "application/vnd.openxmlformats-officedocument.wordprocessingml.document"
          \/ f.ext = "docx" THEN "docx"
  ELSE IF f.mime \in {"text/plain"} \/ f.ext = "txt" THEN "txt"
  ELSE IF f.mime \in {"audio/mpeg"} THEN "audio"
  ELSE IF f.mime \in {"image/png"} THEN "image"
  ELSE "unsupported"

\* id of the returned Document: a second generateId(), after the chunk ids
DocumentId(partialId, n) == partialId + 1 + n

\* Array(Math.min(CONCURRENCY_LIMIT, totalChunks))
WorkerCountUnbounded(totalChunks) == totalChunks
WorkerCount(totalChunks) ==
  IF CONCURRENCY_LIMIT < totalChunks THEN CONCURRENCY_LIMIT ELSE totalChunks

\* while (queue.length > 0)
QueueHasWorkButLast(q) == Len(q) > 1
QueueHasWork(q) == Len(q) > 0

\* await Promise.all(workers) resolves
AnyWorkerResolved(done, total) == done >= 1
AllWorkersResolved(done, total) == done = WorkerCount(total)

Rejected(e, evs) ==
  /\ outcome' = "rejected"
  /\ err' = e
  /\ trigger' = IF trigger = NoError THEN [e EXCEPT !.wrapped = FALSE] ELSE trigger
  /\ events' = evs
  /\ pc' = "settled"

PagesPending == {p \in 1..Len(pages) : pages[p] \in {"loading", "ocr"}}

\* ragService.processDocument(file), up to the first await that suspends it.
\* Calls are made one after the other, as App.handleDocumentUpload makes
\* them: the next call starts when the previous one has settled and none
\* of its embedding or page promises is still pending.
StartJob(f) ==
  /\ pc \in {"idle", "settled"}
  /\ njobs < MaxJobs
  /\ inflight = {}
  /\ PagesPending = {}
  /\ njobs' = njobs + 1
  /\ file' = f
  /\ jobBase' = nextId
  /\ doc' = NoDoc
  /\ pages' = <<>>
  /\ pageText' = <<>>
  /\ pagesProcessed' = 0
  /\ queue' = <<>>
  /\ inflight' = {}
  /\ workersDone' = 0
  /\ workersFailed' = 0
  /\ completedChunks' = 0
  /\ embedCalls' = <<>>
  /\ saveInvoked' = FALSE
  /\ LET e0 == UpdateProgress(UpdateProgress(<<>>, "uploading", 0, 1), "uploading", 0, 1)
         e1 == UpdateProgress(e0, "extracting", 10, 1)
         t == DetectDocumentType(f)
     IN CASE t = "unsupported" ->
               /\ outcome' = "rejected"
               /\ err' = [stage |-> "detect", cause |-> 0, wrapped |-> FALSE]
               /\ trigger' = [stage |-> "detect", cause |-> 0, wrapped |-> FALSE]
               /\ events' = ErrorInProcessor(e0)
               /\ pc' = "settled"
          [] t = "pdf" ->
               /\ outcome' = "none" /\ err' = NoError /\ trigger' = NoError
               /\ events' = e1
               /\ pc' = "opening"
          [] t \in {"docx", "txt", "audio"} ->
               /\ outcome' = "none" /\ err' = NoError /\ trigger' = NoError
               /\ events' = UpdateProgress(e1, "extracting", 30, 1)
               /\ pc' = "reading"
          [] OTHER ->
               /\ outcome' = "rejected"
               /\ err' = [stage |-> "detect", cause |-> 1, wrapped |-> FALSE]
               /\ trigger' = [stage |-> "detect", cause |-> 1, wrapped |-> FALSE]
               /\ events' = ErrorInProcessor(e1)
               /\ pc' = "settled"
  /\ UNCHANGED <<nextId, cvars, svars, ovars, embedCalls>>

\* The queue once each of the WorkerCount(n) workers has run up to its first
\* await: each has taken one chunk with queue.shift()
WholeQueue(n) == [i \in 1..n |-> i]
RemainingQueue(n) == [i \in 1..(n - WorkerCount(n)) |-> WorkerCount(n) + i]

\* From the extracted text to the start of the embedding workers (or, for a
\* document without chunks, to the call of storageService.saveDocument).
ContinueWithContent(evs, text) ==
  LET t == DetectDocumentType(file)
      partialId == nextId
      cs == ChunkDocument(text, [id |-> partialId, type |-> t], partialId + 1)
      n == Len(cs)
      e1 == UpdateProgress(evs, "chunking", 60, 1)
      e2 == UpdateProgress(e1, "complete", 100, 1)
      e3 == UpdateProgress(e2, "embedding", 70, 1)
  IN /\ nextId' = partialId + n + 2
     /\ doc' = [id |-> DocumentId(partialId, n), name |-> file.name, type |-> t, chunks |-> cs]
     /\ completedChunks' = 0
     /\ workersDone' = 0
     /\ workersFailed' = 0
     /\ embedCalls' = [i \in 1..n |-> IF i <= WorkerCount(n) THEN 1 ELSE 0]
     /\ IF n > 0
        THEN /\ events' = e3
             /\ inflight' = 1..WorkerCount(n)
             /\ queue' = RemainingQueue(n)
             /\ pc' = "embedding"
             /\ saveInvoked' = FALSE
        ELSE /\ events' = UpdateProgress(e3, "indexing", 95, 1)
             /\ inflight' = {}
             /\ queue' = <<>>
             /\ pc' = "saving"
             /\ saveInvoked' = TRUE

\* processTXT / processDOCX / processAudio: the awaited read resolves
ReadResolve ==
  /\ pc = "reading"
  /\ ContinueWithContent(events, file.body)
  /\ UNCHANGED <<njobs, file, pages, pageText, pagesProcessed, outcome, err, trigger,
                 jobBase, cvars, svars, ovars>>

\* ... or rejects: the error is wrapped and thrown again
ReadFail ==
  /\ pc = "reading"
  /\ Rejected([stage |-> "extract", cause |-> 0, wrapped |-> TRUE], ErrorInProcessor(events))
  /\ UNCHANGED <<nextId, njobs, file, doc, pages, pageText, pagesProcessed, queue, inflight,
                 workersDone, workersFailed, completedChunks, saveInvoked, jobBase,
                 cvars, svars, ovars, embedCalls>>

\* processPDF: the document is open, every page task is started
PdfOpened ==
  /\ pc = "opening"
  /\ events' = UpdateProgress(events, "extracting", 20, 1)
  /\ pages' = [p \in 1..Len(file.pages) |-> "loading"]
  /\ pageText' = [p \in 1..Len(file.pages) |-> <<>>]
  /\ pagesProcessed' = 0
  /\ pc' = "pages"
  /\ UNCHANGED <<nextId, njobs, file, doc, queue, inflight, workersDone, workersFailed,
                 completedChunks, outcome, err, trigger, saveInvoked, jobBase, cvars, svars, ovars, embedCalls>>

PdfOpenFail ==
  /\ pc = "opening"
  /\ Rejected([stage |-> "extract", cause |-> 0, wrapped |-> TRUE], ErrorInProcessor(events))
  /\ UNCHANGED <<nextId, njobs, file, doc, pages, pageText, pagesProcessed, queue, inflight,
                 workersDone, workersFailed, completedChunks, saveInvoked, jobBase,
                 cvars, svars, ovars, embedCalls>>

\* The end of a page task: pagesProcessed++, progress, the page's string
PageComplete(p, text) ==
  /\ pagesProcessed' = pagesProcessed + 1
  /\ events' = UpdateProgress(events, "extracting",
                              20 * Len(pages) + 40 * (pagesProcessed + 1), Len(pages))
  /\ pages' = [pages EXCEPT ![p] = "done"]
  /\ pageText' = [pageText EXCEPT ![p] = PdfPage(p, text)]

\* getPage and getTextContent resolved: a page with little text goes to OCR
PageLoaded(p) ==
  /\ p \in 1..Len(pages)
  /\ pages[p] = "loading"
  /\ IF Len(Trim(file.pages[p])) < OCR_MIN_CHARS
     THEN /\ events' = UpdateProgress(events, "extracting",
                                      20 * Len(pages) + 30 * pagesProcessed, Len(pages))
          /\ pages' = [pages EXCEPT ![p] = "ocr"]
          /\ UNCHANGED <<pageText, pagesProcessed>>
     ELSE PageComplete(p, file.pages[p])
  /\ UNCHANGED <<nextId, njobs, pc, file, doc, queue, inflight, workersDone, workersFailed,
                 completedChunks, outcome, err, trigger, saveInvoked, jobBase, cvars, svars, ovars, embedCalls>>

\* render and runOCR resolved: pageText = ocrText || pageText
PageOcr(p, ocrText) ==
  /\ p \in 1..Len(pages)
  /\ pages[p] = "ocr"
  /\ PageComplete(p, IF ocrText # <<>> THEN ocrText ELSE file.pages[p])
  /\ UNCHANGED <<nextId, njobs, pc, file, doc, queue, inflight, workersDone, workersFailed,
                 completedChunks, outcome, err, trigger, saveInvoked, jobBase, cvars, svars, ovars, embedCalls>>

\* A page task rejects; the first rejection rejects Promise.all(pagePromises)
PageFail(p) ==
  /\ p \in PagesPending
  /\ pages' = [pages EXCEPT ![p] = "failed"]
  /\ IF pc = "pages"
     THEN Rejected([stage |-> "extract", cause |-> p, wrapped |-> TRUE], ErrorInProcessor(events))
     ELSE UNCHANGED <<outcome, err, trigger, events, pc>>
  /\ UNCHANGED <<nextId, njobs, file, doc, pageText, pagesProcessed, queue, inflight,
                 workersDone, workersFailed, completedChunks, saveInvoked, jobBase,
                 cvars, svars, ovars, embedCalls>>

\* Promise.all(pagePromises) resolved: fullText.trim() is the content
PagesDone ==
  /\ pc = "pages"
  /\ \A p \in 1..Len(pages) : pages[p] = "done"
  /\ ContinueWithContent(events, Trim(Flatten(pageText)))
  /\ UNCHANGED <<njobs, file, pages, pageText, pagesProcessed, outcome, err, trigger,
                 jobBase, cvars, svars, ovars>>

(***************************************************************************)
(* ragService.processDocument: the embedding workers (processNext)         *)
(***************************************************************************)
\* A pending generateEmbedding call resolves: the worker stores the vector,
\* advances the counter, reports progress and takes the next chunk, if any.
EmbedResolve(c) ==
  /\ c \in inflight
  /\ doc' = [doc EXCEPT !.chunks[c].embedding = SomeEmbedding(Embedder(doc.chunks[c].content))]
  /\ completedChunks' = completedChunks + 1
  /\ events' = UpdateProgress(events, "embedding",
                              70 * Len(doc.chunks) + 20 * (completedChunks + 1), Len(doc.chunks))
  /\ IF QueueHasWork(queue)
     THEN /\ inflight' = (inflight \ {c}) \cup {Head(queue)}
          /\ queue' = Tail(queue)
          /\ embedCalls' = [embedCalls EXCEPT ![Head(queue)] = @ + 1]
          /\ UNCHANGED workersDone
     ELSE /\ inflight' = inflight \ {c}
          /\ workersDone' = workersDone + 1
          /\ UNCHANGED <<queue, embedCalls>>
  /\ UNCHANGED <<nextId, njobs, pc, file, pages, pageText, pagesProcessed, workersFailed,
                 outcome, err, trigger, saveInvoked, jobBase, cvars, svars, ovars>>

\* A pending generateEmbedding call rejects: its worker rejects, and the
\* first rejection rejects Promise.all(workers); the other workers go on.
EmbedFail(c) ==
  /\ c \in inflight
  /\ inflight' = inflight \ {c}
  /\ workersFailed' = workersFailed + 1
  /\ IF pc = "embedding"
     THEN Rejected([stage |-> "embed", cause |-> c, wrapped |-> FALSE], ErrorInRag(events))
     ELSE UNCHANGED <<outcome, err, trigger, events, pc>>
  /\ UNCHANGED <<nextId, njobs, file, doc, pages, pageText, pagesProcessed, queue,
                 workersDone, completedChunks, saveInvoked, jobBase, cvars, svars, ovars, embedCalls>>

\* Promise.all(workers) resolved: 'indexing', then storageService.saveDocument
EmbeddingDone ==
  /\ pc = "embedding"
  /\ AllWorkersResolved(workersDone, Len(doc.chunks))
  /\ events' = UpdateProgress(events, "indexing", 95, 1)
  /\ saveInvoked' = TRUE
  /\ pc' = "saving"
  /\ UNCHANGED <<nextId, njobs, file, doc, pages, pageText, pagesProcessed, queue, inflight,
                 workersDone, workersFailed, completedChunks, outcome, err, trigger,
                 jobBase, cvars, svars, ovars, embedCalls>>

(***************************************************************************)
(* PrivacyStorageService: saveDocument and deleteDocument                  *)
(***************************************************************************)
StoredChunk(c) ==
  [id |-> c.id, documentId |-> c.documentId, content |-> c.content,
   startIndex |-> c.startIndex, endIndex |-> c.endIndex, page |-> c.page,
   embedding |-> IF c.embedding.some THEN c.embedding.vec ELSE <<>>]

StoredDocument(d) ==
  [id |-> d.id, name |-> d.name, type |-> d.type,
   chunks |-> [i \in 1..Len(d.chunks) |-> StoredChunk(d.chunks[i])]]

\* objectStore.put of each record (keyPath 'id'), as committed by tx.done
Put(store, records) == {r \in store : r.id \notin {x.id : x \in records}} \cup records

\* The readwrite transaction aborts: none of its puts is applied
AbortKeepsPuts(store, records) == Put(store, records)
Abort(store, records) == store

\* chunks.index('by-document').getAll(id)
ByDocument(store, id) == {c \in store : c.documentId = id}

\* The put requests saveDocument issues in its transaction: the document
\* record, then one per chunk
PutCount(d) == 1 + Len(d.chunks)

\* The records of the first n put requests, per object store
PendingDocuments(d, n) == IF n >= 1 THEN {StoredDocument(d)} ELSE {}
PendingChunks(d, n) ==
  {StoredDocument(d).chunks[i] : i \in 1..Min({n - 1, Len(d.chunks)})}

\* What db.get / db.getAll of another transaction reads while the readwrite
\* transaction over 'documents' and 'chunks' is open: the committed records
VisibleUncommitted(store, pending) == Put(store, pending)
Visible(store, pending) == store

\* One put request of the open transaction completes
SavePut ==
  /\ pc = "saving"
  /\ txPuts < PutCount(doc)
  /\ txPuts' = txPuts + 1
  /\ UNCHANGED <<documents, chunkStore, deletedChunks, jvars, cvars, ovars>>

\* saveDocument resolves; processDocument reports 'complete' and returns
SaveCommit ==
  /\ pc = "saving"
  /\ txPuts = PutCount(doc)
  /\ txPuts' = 0
  /\ LET sd == StoredDocument(doc)
     IN /\ documents' = Put(documents, {sd})
        /\ chunkStore' = Put(chunkStore, {sd.chunks[i] : i \in 1..Len(sd.chunks)})
  /\ events' = UpdateProgress(events, "complete", 100, 1)
  /\ outcome' = "resolved"
  /\ pc' = "settled"
  /\ UNCHANGED <<nextId, njobs, file, doc, pages, pageText, pagesProcessed, queue, inflight,
                 workersDone, workersFailed, completedChunks, err, trigger, saveInvoked,
                 jobBase, deletedChunks, cvars, ovars, embedCalls>>

\* saveDocument rejects (storage not initialized, or the transaction fails)
SaveFail ==
  /\ pc = "saving"
  /\ txPuts' = 0
  /\ LET sd == StoredDocument(doc)
     IN /\ documents' = Abort(documents, {sd})
        /\ chunkStore' = Abort(chunkStore, {sd.chunks[i] : i \in 1..Len(sd.chunks)})
  /\ Rejected([stage |-> "save", cause |-> 0, wrapped |-> FALSE], ErrorInRag(events))
  /\ UNCHANGED <<nextId, njobs, file, doc, pages, pageText, pagesProcessed, queue, inflight,
                 workersDone, workersFailed, completedChunks, saveInvoked, jobBase,
                 deletedChunks, cvars, ovars, embedCalls>>

\* ragService.deleteDocument(id) -> storageService.deleteDocument(id), for
\* the id of a listed document
DeleteDocument(id) ==
  /\ id \in {d.id : d \in documents}
  /\ documents' = {d \in documents : d.id # id}
  /\ chunkStore' = chunkStore \ ByDocument(chunkStore, id)
  /\ deletedChunks' = deletedChunks \cup
        UNION {{d.chunks[i].id : i \in 1..Len(d.chunks)} : d \in {x \in documents : x.id = id}}
  /\ UNCHANGED <<txPuts, jvars, cvars, ovars>>

\* searchChunks, lines 199-213: the similarity computed for each chunk that
\* has a non-empty embedding, in getAll order
Similarities(store, queryEmbedding) ==
  LET embedded == SelectSeq(GetAll(store), LAMBDA c : Len(c.embedding) > 0)
  IN [i \in 1..Len(embedded) |->
        [id |-> embedded[i].id, embedding |-> embedded[i].embedding,
         similarity |-> CosineSimilarity(queryEmbedding, embedded[i].embedding)]]

(***************************************************************************)
(* PrivacyRAGService.searchDocuments                                       *)
(***************************************************************************)
\* calculateSimilarity(vec1, vec2)
CalculateSimilarity(vec1, vec2) ==
  IF Len(vec1) # Len(vec2) THEN [nan |-> FALSE, dot |-> 0, nn |-> 1]
  ELSE IF Dot(vec1, vec1) * Dot(vec2, vec2) = 0 THEN [nan |-> TRUE, dot |-> 0, nn |-> 1]
  ELSE [nan |-> FALSE, dot |-> Dot(vec1, vec2), nn |-> Dot(vec1, vec1) * Dot(vec2, vec2)]

ZeroScore == [nan |-> FALSE, dot |-> 0, nn |-> 1]
NaNScore == [nan |-> TRUE, dot |-> 0, nn |-> 1]

\* topK * 2 and threshold * 0.8, the arguments searchDocuments passes on
FetchCount(topK) == topK * 2
RelaxedThreshold(threshold) == [num |-> threshold.num * 8, den |-> threshold.den * 10]

\* Math.max(...relevanceScores, 0): NaN as soon as one score is NaN
MaxScore(relevanceScores) ==
  IF \E i \in 1..Len(relevanceScores) : relevanceScores[i].nan THEN NaNScore
  ELSE LET S == {relevanceScores[i] : i \in 1..Len(relevanceScores)} \cup {ZeroScore}
       IN CHOOSE m \in S : \A o \in S : ~SimLess(m, o)

\* reduce((a, b) => a + b, 0) / length, kept as the summands and the divisor;
\* 0 for no scores
AvgScore(relevanceScores) ==
  IF Len(relevanceScores) > 0
  THEN [terms |-> relevanceScores, count |-> Len(relevanceScores)]
  ELSE [terms |-> <<>>, count |-> 1]

\* chunks.filter(chunk => documentIds.includes(chunk.documentId)), applied
\* when documentIds is given and not empty
FilterByDocumentIds(cs, documentIds) ==
  IF documentIds # {} THEN SelectSeq(cs, LAMBDA c : c.documentId \in documentIds) ELSE cs

\* searchDocuments(query, {topK, threshold, documentIds}), after the query
\* has been embedded
SearchDocuments(store, queryEmbedding, topK, threshold, documentIds) ==
  LET fetched == SearchChunks(store, queryEmbedding, FetchCount(topK), RelaxedThreshold(threshold))
      allowed == FilterByDocumentIds(fetched, documentIds)
      top == SubSeq(allowed, 1, Min({topK, Len(allowed)}))
      relevanceScores == [i \in 1..Len(top) |-> CalculateSimilarity(queryEmbedding, top[i].embedding)]
  IN [chunks |-> top,
      totalResults |-> Len(top),
      maxRelevanceScore |-> MaxScore(relevanceScores),
      averageRelevanceScore |-> AvgScore(relevanceScores)]

(***************************************************************************)
(* Search specification: a stored population, searched once.               *)
(***************************************************************************)
\* The embeddings found in the chunk store: of the query's dimensionality
\* (similar, less similar, zero), of another model's dimensionality, and
\* the empty array saveDocument stores for a chunk without embedding
StoredEmbeddings == {<<1, 0>>, <<2, 3>>, <<0, 0>>, <<1>>, <<>>}
PopulationDocumentIds == {1, 2}
SearchQueries == {<<1, 0>>, <<-1, 0>>}
SearchTopKs == {0, 1, 2}
SearchThresholds == {[num |-> -1, den |-> 1], [num |-> 6, den |-> 10], [num |-> 9, den |-> 10]}
AllowLists == {{}, {2}}

PopulationChunk(id, documentId, embedding) ==
  [id |-> id, documentId |-> documentId, content |-> <<"x">>, startIndex |-> 0,
   endIndex |-> 1, page |-> 0, embedding |-> embedding]

\* The chunk stores of n chunks; keys ascend in the order of the ids
PopulationsOf(n) ==
  {{PopulationChunk(i, f[i][1], f[i][2]) : i \in 1..n} :
      f \in [1..n -> PopulationDocumentIds \X StoredEmbeddings]}

Populations == UNION {PopulationsOf(n) : n \in 0..MaxStored}

\* The document records: processDocument gives the Document an id of its
\* own, different from the documentId of its chunks (DocumentId)
PopulationDocuments(store) ==
  {[id |-> DocumentId(d, MaxStored), name |-> "notes.txt", type |-> "txt",
    chunks |-> GetAll(ByDocument(store, d))] : d \in {c.documentId : c \in store}}

InitSearch ==
  /\ content = <<>>
  /\ docType = "txt"
  /\ chunks = <<>>
  /\ cpc = "off"
  /\ InitJob
  /\ chunkStore \in Populations
  /\ documents = PopulationDocuments(chunkStore)
  /\ deletedChunks = {}
  /\ txPuts = 0
  /\ spc = "start"
  /\ searchCall = NoCall
  /\ scan = <<>>
  /\ hits = <<>>
  /\ searchResult = NoResult
  /\ InitChatOff
  /\ InitBatchOff
  /\ InitLoadOff
  /\ InitHistoryOff

\* storageService.searchChunks(queryEmbedding, topK, threshold)
SearchChunksCall(q, topK, threshold) ==
  /\ spc = "start"
  /\ searchCall' = [op |-> "searchChunks", q |-> q, topK |-> topK, threshold |-> threshold,
                    documentIds |-> {}, chunkTopK |-> topK, chunkThreshold |-> threshold]
  /\ scan' = Similarities(chunkStore, q)
  /\ hits' = SearchChunks(chunkStore, q, topK, threshold)
  /\ searchResult' = NoResult
  /\ spc' = "done"
  /\ UNCHANGED <<cvars, jvars, svars, hvars, bvars, lvars, gvars>>

\* ragService.searchDocuments(query, {topK, threshold, documentIds}); q is
\* the embedding llmService.generateEmbedding(query) resolved with
SearchDocumentsCall(q, topK, threshold, documentIds) ==
  /\ spc = "start"
  /\ searchCall' = [op |-> "searchDocuments", q |-> q, topK |-> topK, threshold |-> threshold,
                    documentIds |-> documentIds, chunkTopK |-> FetchCount(topK),
                    chunkThreshold |-> RelaxedThreshold(threshold)]
  /\ scan' = Similarities(chunkStore, q)
  /\ hits' = SearchChunks(chunkStore, q, FetchCount(topK), RelaxedThreshold(threshold))
  /\ searchResult' = SearchDocuments(chunkStore, q, topK, threshold, documentIds)
  /\ spc' = "done"
  /\ UNCHANGED <<cvars, jvars, svars, hvars, bvars, lvars, gvars>>

\* searchDocuments: generateEmbedding(query) rejects, the call rejects
SearchDocumentsReject ==
  /\ spc = "start"
  /\ spc' = "rejected"
  /\ UNCHANGED <<searchCall, scan, hits, searchResult, cvars, jvars, svars, hvars, bvars, lvars, gvars>>

NextSearch ==
  \/ \E q \in SearchQueries : \E k \in SearchTopKs : \E t \in SearchThresholds :
        SearchChunksCall(q, k, t)
  \/ \E q \in SearchQueries : \E k \in SearchTopKs : \E t \in SearchThresholds :
        \E ids \in AllowLists : SearchDocumentsCall(q, k, t, ids)
  \/ SearchDocumentsReject

SpecSearch == InitSearch /\ [][NextSearch]_vars

(***************************************************************************)
(* PrivacyRAGService.chat and generateResponse.  Each action is the code   *)
(* between two awaits; an awaited call resolves or rejects.  Calls are     *)
(* made one after the other, as the chat input of the UI makes them.       *)
(***************************************************************************)
ChatEmbeddings == {<<1, 0>>, <<2, 3>>}
ChatQuery == <<1, 0>>

ChatPopulationsOf(n) ==
  {{PopulationChunk(i, f[i][1], f[i][2]) : i \in 1..n} :
      f \in [1..n -> PopulationDocumentIds \X ChatEmbeddings]}

ChatPopulations == UNION {ChatPopulationsOf(n) : n \in 0..MaxChatStored}

InitChat ==
  /\ content = <<>>
  /\ docType = "txt"
  /\ chunks = <<>>
  /\ cpc = "off"
  /\ InitJob
  /\ chunkStore \in ChatPopulations
  /\ documents = PopulationDocuments(chunkStore)
  /\ deletedChunks = {}
  /\ txPuts = 0
  /\ InitSearchOff
  /\ InitBatchOff
  /\ InitLoadOff
  /\ InitHistoryOff
  /\ hpc = "idle"
  /\ turn = 0
  /\ entry = ""
  /\ chatHistory = <<>>
  /\ nextMsg = 1
  /\ hIds = {}
  /\ hq = <<>>
  /\ hchunks = <<>>
  /\ hdocMap = {}
  /\ hi = 0
  /\ hsources = <<>>
  /\ hfailure = ""
  /\ hreturned = NoMessage
  /\ docLookups = <<>>

fixedInChat == <<cvars, jvars, svars, qvars, bvars, lvars, gvars>>

\* storageService.saveChatMessage(message): db.put('chat_history', message)
SaveChatMessageLost(history, message) == history
SaveChatMessage(history, message) == Append(history, message)

\* storageService.getDocument(id): the record of that id, if any
GetDocument(docs, id) == {d \in docs : d.id = id}

\* The first chunk from position i on whose documentId is not in documentMap
NextLookup(cs, i, documentMap) ==
  IF \E j \in i..Len(cs) : cs[j].documentId \notin documentMap
  THEN Min({j \in i..Len(cs) : cs[j].documentId \notin documentMap})
  ELSE 0

\* A new call starts: the state of the previous call is dropped
StartCall(e, documentIds) ==
  /\ hpc \in {"idle", "returned", "rejected"}
  /\ turn < MaxTurns
  /\ turn' = turn + 1
  /\ entry' = e
  /\ hIds' = documentIds
  /\ hq' = <<>>
  /\ hchunks' = <<>>
  /\ hdocMap' = {}
  /\ hi' = 0
  /\ hsources' = <<>>
  /\ hfailure' = ""
  /\ hreturned' = NoMessage
  /\ docLookups' = <<>>

\* chat(userMessage, options) up to await saveChatMessage(userChatMessage)
ChatCall(documentIds) ==
  /\ StartCall("chat", documentIds)
  /\ nextMsg' = nextMsg + 1
  /\ hpc' = "userSave"
  /\ UNCHANGED <<chatHistory, fixedInChat>>

\* The user message is saved; generateResponse is entered and awaits the
\* query embedding inside searchDocuments
UserSaved ==
  /\ hpc = "userSave"
  /\ chatHistory' = SaveChatMessage(chatHistory,
        [id |-> nextMsg - 1, role |-> "user", kind |-> "question", cause |-> "",
         sources |-> <<>>, turn |-> turn])
  /\ hpc' = "embedQuery"
  /\ UNCHANGED <<turn, entry, nextMsg, hIds, hq, hchunks, hdocMap, hi, hsources, hfailure,
                 hreturned, docLookups, fixedInChat>>

\* Saving the user message fails: chat rethrows
UserSaveFail ==
  /\ hpc = "userSave"
  /\ hpc' = "rejected"
  /\ UNCHANGED <<turn, entry, chatHistory, nextMsg, hIds, hq, hchunks, hdocMap, hi, hsources,
                 hfailure, hreturned, docLookups, fixedInChat>>

\* generateResponse(userQuestion, options) called directly
GenerateResponseCall(documentIds) ==
  /\ StartCall("generateResponse", documentIds)
  /\ hpc' = "embedQuery"
  /\ UNCHANGED <<chatHistory, nextMsg, fixedInChat>>

\* catch (error) of generateResponse: the error message is built and
\* await saveChatMessage(errorMessage) is reached
Caught(stage) ==
  /\ hfailure' = IF hfailure = "" THEN stage ELSE hfailure
  /\ nextMsg' = nextMsg + 1
  /\ hpc' = "saveError"

\* searchDocuments: generateEmbedding(query) resolves
QueryEmbedded ==
  /\ hpc = "embedQuery"
  /\ hq' = ChatQuery
  /\ hpc' = "search"
  /\ UNCHANGED <<turn, entry, chatHistory, nextMsg, hIds, hchunks, hdocMap, hi, hsources,
                 hfailure, hreturned, docLookups, fixedInChat>>

QueryEmbedFail ==
  /\ hpc = "embedQuery"
  /\ Caught("embed")
  /\ UNCHANGED <<turn, entry, chatHistory, hIds, hq, hchunks, hdocMap, hi, hsources,
                 hreturned, docLookups, fixedInChat>>

\* searchDocuments: searchChunks resolves, the SearchResult is returned and
\* generateResponse goes on to its first await
SearchResolved ==
  /\ hpc = "search"
  /\ LET cs == SearchDocuments(chunkStore, hq, DEFAULT_MAX_SOURCES, RESPONSE_THRESHOLD, hIds).chunks
     IN /\ hchunks' = cs
        /\ IF Len(cs) > 0
           THEN /\ hpc' = "getDocument"
                /\ hi' = 1
                /\ docLookups' = << cs[1].documentId >>
           ELSE /\ hpc' = "generate"
                /\ hi' = 0
                /\ docLookups' = <<>>
  /\ UNCHANGED <<turn, entry, chatHistory, nextMsg, hIds, hq, hdocMap, hsources, hfailure,
                 hreturned, fixedInChat>>

SearchFail ==
  /\ hpc = "search"
  /\ Caught("search")
  /\ UNCHANGED <<turn, entry, chatHistory, hIds, hq, hchunks, hdocMap, hi, hsources,
                 hreturned, docLookups, fixedInChat>>

\* await storageService.getDocument(chunk.documentId) resolves; the loop runs
\* on to the next chunk whose documentId is not in documentMap, or the source
\* loop starts and awaits generateEmbedding(userQuestion) for its first chunk
GetDocumentResolved ==
  /\ hpc = "getDocument"
  /\ LET id == hchunks[hi].documentId
         documentMap == IF GetDocument(documents, id) # {} THEN hdocMap \cup {id} ELSE hdocMap
         next == NextLookup(hchunks, hi + 1, documentMap)
     IN /\ hdocMap' = documentMap
        /\ IF next > 0
           THEN /\ hi' = next
                /\ docLookups' = Append(docLookups, hchunks[next].documentId)
                /\ hpc' = "getDocument"
           ELSE /\ hi' = 1
                /\ docLookups' = docLookups
                /\ hpc' = "embedSource"
  /\ UNCHANGED <<turn, entry, chatHistory, nextMsg, hIds, hq, hchunks, hsources, hfailure,
                 hreturned, fixedInChat>>

GetDocumentFail ==
  /\ hpc = "getDocument"
  /\ Caught("getDocument")
  /\ UNCHANGED <<turn, entry, chatHistory, hIds, hq, hchunks, hdocMap, hi, hsources,
                 hreturned, docLookups, fixedInChat>>

\* sources.push for chunk hi, once generateEmbedding(userQuestion) resolved
SourceEmbedded ==
  /\ hpc = "embedSource"
  /\ hsources' = Append(hsources,
        [documentId |-> hchunks[hi].documentId,
         documentName |-> IF hchunks[hi].documentId \in hdocMap
                          THEN "notes.txt" ELSE "Unknown Document",
         chunkId |-> hchunks[hi].id,
         relevanceScore |-> CalculateSimilarity(ChatQuery, hchunks[hi].embedding)])
  /\ IF hi < Len(hchunks)
     THEN hi' = hi + 1 /\ hpc' = "embedSource"
     ELSE hi' = hi /\ hpc' = "generate"
  /\ UNCHANGED <<turn, entry, chatHistory, nextMsg, hIds, hq, hchunks, hdocMap, hfailure,
                 hreturned, docLookups, fixedInChat>>

SourceEmbedFail ==
  /\ hpc = "embedSource"
  /\ Caught("embedSource")
  /\ UNCHANGED <<turn, entry, chatHistory, hIds, hq, hchunks, hdocMap, hi, hsources,
                 hreturned, docLookups, fixedInChat>>

\* llmService.generateText resolves: the message is built and
\* await saveChatMessage(message) is reached
Generated ==
  /\ hpc = "generate"
  /\ nextMsg' = nextMsg + 1
  /\ hpc' = "saveAnswer"
  /\ UNCHANGED <<turn, entry, chatHistory, hIds, hq, hchunks, hdocMap, hi, hsources, hfailure,
                 hreturned, docLookups, fixedInChat>>

GenerateFail ==
  /\ hpc = "generate"
  /\ Caught("generate")
  /\ UNCHANGED <<turn, entry, chatHistory, hIds, hq, hchunks, hdocMap, hi, hsources,
                 hreturned, docLookups, fixedInChat>>

\* The answer is saved and returned
AnswerSaved ==
  /\ hpc = "saveAnswer"
  /\ LET message == [id |-> nextMsg - 1, role |-> "assistant", kind |-> "answer", cause |-> "",
                     sources |-> hsources, turn |-> turn]
     IN /\ chatHistory' = SaveChatMessage(chatHistory, message)
        /\ hreturned' = message
  /\ hpc' = "returned"
  /\ UNCHANGED <<turn, entry, nextMsg, hIds, hq, hchunks, hdocMap, hi, hsources, hfailure,
                 docLookups, fixedInChat>>

AnswerSaveFail ==
  /\ hpc = "saveAnswer"
  /\ Caught("save")
  /\ UNCHANGED <<turn, entry, chatHistory, hIds, hq, hchunks, hdocMap, hi, hsources,
                 hreturned, docLookups, fixedInChat>>

\* The error message is saved and returned
ErrorSaved ==
  /\ hpc = "saveError"
  /\ LET errorMessage == [id |-> nextMsg - 1, role |-> "assistant", kind |-> "failure",
                          cause |-> hfailure, sources |-> <<>>, turn |-> turn]
     IN /\ chatHistory' = SaveChatMessage(chatHistory, errorMessage)
        /\ hreturned' = errorMessage
  /\ hpc' = "returned"
  /\ UNCHANGED <<turn, entry, nextMsg, hIds, hq, hchunks, hdocMap, hi, hsources, hfailure,
                 docLookups, fixedInChat>>

\* Saving the error message fails inside the catch block: the call rejects
ErrorSaveFail ==
  /\ hpc = "saveError"
  /\ hpc' = "rejected"
  /\ UNCHANGED <<turn, entry, chatHistory, nextMsg, hIds, hq, hchunks, hdocMap, hi, hsources,
                 hfailure, hreturned, docLookups, fixedInChat>>

NextChat ==
  \/ \E ids \in AllowLists : ChatCall(ids)
  \/ UserSaved
  \/ UserSaveFail
  \/ \E ids \in AllowLists : GenerateResponseCall(ids)
  \/ QueryEmbedded
  \/ QueryEmbedFail
  \/ SearchResolved
  \/ SearchFail
  \/ GetDocumentResolved
  \/ GetDocumentFail
  \/ SourceEmbedded
  \/ SourceEmbedFail
  \/ Generated
  \/ GenerateFail
  \/ AnswerSaved
  \/ AnswerSaveFail
  \/ ErrorSaved
  \/ ErrorSaveFail

SpecChat == InitChat /\ [][NextChat]_vars

(***************************************************************************)
(* Batch ingestion: ragService.processMultipleDocuments,                   *)
(* documentProcessor.processMultipleDocuments and App.handleDocumentUpload.*)
(* Each awaited processDocument call is taken by its outcome: it resolves  *)
(* with the Document (stored, for ragService) or rejects (nothing stored). *)
(* The progress reports of the calls are not part of this specification.   *)
(***************************************************************************)
BatchFiles ==
  {f \in TxtFiles : Len(Paragraphs(f.body)) \in {1, 2}} \cup {f \in OtherFiles : f.ext = "zip"}

Batches == SeqsUpTo(BatchFiles, MaxBatch)

Callers == {"ragService", "documentProcessor", "App"}

InitBatch ==
  /\ content = <<>>
  /\ docType = "txt"
  /\ chunks = <<>>
  /\ cpc = "off"
  /\ InitJob
  /\ InitStore
  /\ InitSearchOff
  /\ InitChatOff
  /\ InitLoadOff
  /\ InitHistoryOff
  /\ bpc = "idle"
  /\ caller = ""
  /\ batch = <<>>
  /\ bi = 0
  /\ attempts = <<>>
  /\ resolved = {}
  /\ results = <<>>
  /\ uiError = FALSE
  /\ batchNextId = 1

\* The Document documentProcessor.processDocument resolves with
ProcessedDocument(f, partialId) ==
  LET t == DetectDocumentType(f)
      cs == ChunkDocument(f.body, [id |-> partialId, type |-> t], partialId + 1)
  IN [id |-> DocumentId(partialId, Len(cs)), name |-> f.name, type |-> t, chunks |-> cs]

\* ... and the one ragService.processDocument resolves with: every chunk
\* has its embedding
EmbeddedDocument(d) ==
  [d EXCEPT !.chunks = [i \in 1..Len(d.chunks) |->
      [d.chunks[i] EXCEPT !.embedding = SomeEmbedding(Embedder(d.chunks[i].content))]]]

\* Whether the loop of the caller goes on after a processDocument call has
\* rejected: the two processMultipleDocuments catch inside the loop,
\* handleDocumentUpload catches around it
StopsAfterFailure(who) == FALSE
ContinuesAfterFailure(who) == who \in {"ragService", "documentProcessor"}

\* The loop moves on to file i + 1, or the call is over
Advance(i) ==
  IF i < Len(batch)
  THEN /\ bi' = i + 1
       /\ attempts' = Append(attempts, i + 1)
       /\ bpc' = "running"
  ELSE /\ bi' = i
       /\ attempts' = attempts
       /\ bpc' = "returned"

\* The batch call, up to the first awaited processDocument
BatchCall(who, files) ==
  /\ bpc = "idle"
  /\ caller' = who
  /\ batch' = files
  /\ results' = <<>>
  /\ resolved' = {}
  /\ uiError' = FALSE
  /\ IF Len(files) > 0
     THEN bi' = 1 /\ attempts' = <<1>> /\ bpc' = "running"
     ELSE bi' = 0 /\ attempts' = <<>> /\ bpc' = "returned"
  /\ UNCHANGED <<batchNextId, cvars, jvars, svars, qvars, hvars, lvars, gvars>>

\* The awaited processDocument resolves: the document is collected
\* (results.push / setDocuments) and the loop goes on
FileResolved ==
  /\ bpc = "running"
  /\ DetectDocumentType(batch[bi]) # "unsupported"
  /\ LET partial == ProcessedDocument(batch[bi], batchNextId)
         d == IF caller = "documentProcessor" THEN partial ELSE EmbeddedDocument(partial)
         sd == StoredDocument(d)
     IN /\ results' = Append(results, [index |-> bi, id |-> d.id, name |-> d.name])
        /\ batchNextId' = batchNextId + Len(d.chunks) + 2
        /\ IF caller = "documentProcessor"
           THEN UNCHANGED <<documents, chunkStore>>
           ELSE /\ documents' = Put(documents, {sd})
                /\ chunkStore' = Put(chunkStore, {sd.chunks[i] : i \in 1..Len(sd.chunks)})
  /\ resolved' = resolved \cup {bi}
  /\ Advance(bi)
  /\ UNCHANGED <<caller, batch, uiError, deletedChunks, txPuts, cvars, jvars, qvars, hvars, lvars, gvars>>

\* The awaited processDocument rejects
FileRejected ==
  /\ bpc = "running"
  /\ IF ContinuesAfterFailure(caller)
     THEN /\ Advance(bi)
          /\ UNCHANGED uiError
     ELSE /\ uiError' = TRUE
          /\ bpc' = "failed"
          /\ UNCHANGED <<bi, attempts>>
  /\ UNCHANGED <<caller, batch, resolved, results, batchNextId, cvars, jvars, svars, qvars, hvars, lvars, gvars>>

NextBatch ==
  \/ \E who \in Callers : \E files \in Batches : BatchCall(who, files)
  \/ FileResolved
  \/ FileRejected

SpecBatch == InitBatch /\ [][NextBatch]_vars

(***************************************************************************)
(* PrivacyLLMService: initialize, unloadModel and the accessors, and       *)
(* PrivacyRAGService.initialize.  The service exists in two versions: one  *)
(* whose initialize(modelName, retry = true) checks the storage quota and  *)
(* retries once after a cache-corruption error (cacheRetry), and one       *)
(* without either.  Each action is the code between two awaits.            *)
(***************************************************************************)
DEFAULT_MODEL == "Xenova/TinyLlama-1.1B-Chat-v1.0"

Models == {DEFAULT_MODEL, "Xenova/Phi-3.5-mini-instruct"}

ALREADY_LOADING == "Model is already loading"
CACHE_CORRUPTION == "Unexpected token"
INSUFFICIENT_STORAGE == "Insufficient storage space"

\* what a pipeline() call can reject with
LoadErrors == {CACHE_CORRUPTION, "Failed to fetch"}

\* 'storage' in navigator && 'estimate' in navigator.storage
StorageApi == IF cacheRetry THEN BOOLEAN ELSE {FALSE}

InitLoad ==
  /\ content = <<>>
  /\ docType = "txt"
  /\ chunks = <<>>
  /\ cpc = "off"
  /\ InitJob
  /\ InitStore
  /\ InitSearchOff
  /\ InitChatOff
  /\ InitBatchOff
  /\ InitHistoryOff
  /\ lpc = "on"
  /\ cacheRetry \in BOOLEAN
  /\ textGenerator = NoModel
  /\ embedder = FALSE
  /\ currentModel = NoModel
  /\ isLoading = FALSE
  /\ progressStatus = "null"
  /\ loads = <<>>
  /\ rpc = "idle"
  /\ ragLoad = 0
  /\ dbOpen = FALSE

fixedInLoad == <<cvars, jvars, svars, qvars, hvars, bvars, gvars, lpc, cacheRetry>>

IsModelLoaded == textGenerator # NoModel /\ embedder /\ ~isLoading

IsModelLoading == isLoading

GetCurrentModel == currentModel

\* the first await of a load attempt, and downloadProgress.status there
FirstAwait(api) == IF api THEN "estimate" ELSE "generator"
StatusAtFirstAwait(api) == IF api THEN progressStatus ELSE "downloading"

\* the promise of call i settles: ragService.initialize, if it awaits that
\* call, continues
RagAfter(i, settled) == IF rpc = "llm" /\ ragLoad = i THEN settled ELSE rpc

\* llmService.initialize(model) up to its first await
LlmInitialize(model, api) ==
  IF isLoading
  THEN /\ loads' = Append(loads, [model |-> model, retry |-> cacheRetry, pc |-> "rejected",
                                  cause |-> ALREADY_LOADING])
       /\ UNCHANGED <<isLoading, currentModel, progressStatus>>
  ELSE /\ loads' = Append(loads, [model |-> model, retry |-> cacheRetry,
                                  pc |-> FirstAwait(api), cause |-> ""])
       /\ isLoading' = TRUE
       /\ currentModel' = model
       /\ progressStatus' = StatusAtFirstAwait(api)

\* catch: status 'error', rethrow; finally
Rejects(i, cause) ==
  /\ progressStatus' = "error"
  /\ isLoading' = FALSE
  /\ loads' = [loads EXCEPT ![i].pc = "rejected", ![i].cause = cause]
  /\ rpc' = RagAfter(i, "rejected")
  /\ UNCHANGED currentModel

\* this.isLoading = false; return this.initialize(modelName, false): the
\* inner call runs to its first await (isLoading = true, currentModel), its
\* promise is returned without being awaited, and the finally block of the
\* outer call then sets isLoading = false.  The outer promise settles as the
\* inner one does, so the call keeps its record.
Retry(i, api) ==
  /\ loads' = [loads EXCEPT ![i].pc = FirstAwait(api), ![i].retry = FALSE, ![i].cause = ""]
  /\ isLoading' = FALSE
  /\ currentModel' = loads[i].model
  /\ progressStatus' = StatusAtFirstAwait(api)
  /\ UNCHANGED rpc

\* the catch block of initialize
Catch(i, cause, hasCaches, api) ==
  IF loads[i].retry /\ cause = CACHE_CORRUPTION
  THEN IF hasCaches
       THEN /\ progressStatus' = "downloading"
            /\ loads' = [loads EXCEPT ![i].pc = "clearing", ![i].cause = cause]
            /\ UNCHANGED <<isLoading, currentModel, rpc>>
       ELSE Retry(i, api)
  ELSE Rejects(i, cause)

\* handleStartDownload: llmService.initialize(selectedModel)
InitializeCall(model, api) ==
  /\ lpc = "on"
  /\ Len(loads) < MaxLoads
  /\ LlmInitialize(model, api)
  /\ UNCHANGED <<textGenerator, embedder, rpc, ragLoad, dbOpen, fixedInLoad>>

\* await navigator.storage.estimate() is over (a rejection is only logged)
EstimateDone(i, enough) ==
  /\ lpc = "on"
  /\ i \in 1..Len(loads)
  /\ loads[i].pc = "estimate"
  /\ IF enough
     THEN /\ progressStatus' = "downloading"
          /\ loads' = [loads EXCEPT ![i].pc = "generator"]
          /\ UNCHANGED <<isLoading, currentModel, rpc>>
     ELSE Rejects(i, INSUFFICIENT_STORAGE)
  /\ UNCHANGED <<textGenerator, embedder, ragLoad, dbOpen, fixedInLoad>>

\* this.textGenerator = await pipeline('text-generation', targetModel, ...)
GeneratorLoaded(i) ==
  /\ lpc = "on"
  /\ i \in 1..Len(loads)
  /\ loads[i].pc = "generator"
  /\ textGenerator' = loads[i].model
  /\ loads' = [loads EXCEPT ![i].pc = "embedder"]
  /\ UNCHANGED <<embedder, currentModel, isLoading, progressStatus, rpc, ragLoad, dbOpen,
                 fixedInLoad>>

GeneratorFail(i, cause, hasCaches, api) ==
  /\ lpc = "on"
  /\ i \in 1..Len(loads)
  /\ loads[i].pc = "generator"
  /\ Catch(i, cause, hasCaches, api)
  /\ UNCHANGED <<textGenerator, embedder, ragLoad, dbOpen, fixedInLoad>>

\* this.embedder = await pipeline('feature-extraction', ...) and the rest
EmbedderLoaded(i) ==
  /\ lpc = "on"
  /\ i \in 1..Len(loads)
  /\ loads[i].pc = "embedder"
  /\ embedder' = TRUE
  /\ progressStatus' = "ready"
  /\ isLoading' = FALSE
  /\ loads' = [loads EXCEPT ![i].pc = "resolved"]
  /\ rpc' = RagAfter(i, "resolved")
  /\ UNCHANGED <<textGenerator, currentModel, ragLoad, dbOpen, fixedInLoad>>

EmbedderFail(i, cause, hasCaches, api) ==
  /\ lpc = "on"
  /\ i \in 1..Len(loads)
  /\ loads[i].pc = "embedder"
  /\ Catch(i, cause, hasCaches, api)
  /\ UNCHANGED <<textGenerator, embedder, ragLoad, dbOpen, fixedInLoad>>

\* the transformers caches are deleted and the pause is over
CacheCleared(i, api) ==
  /\ lpc = "on"
  /\ i \in 1..Len(loads)
  /\ loads[i].pc = "clearing"
  /\ Retry(i, api)
  /\ UNCHANGED <<textGenerator, embedder, ragLoad, dbOpen, fixedInLoad>>

\* catch (cacheError): falls through to the error path
CacheClearFail(i) ==
  /\ lpc = "on"
  /\ i \in 1..Len(loads)
  /\ loads[i].pc = "clearing"
  /\ Rejects(i, loads[i].cause)
  /\ UNCHANGED <<textGenerator, embedder, ragLoad, dbOpen, fixedInLoad>>

UnloadModel ==
  /\ lpc = "on"
  /\ textGenerator' = NoModel
  /\ embedder' = FALSE
  /\ currentModel' = NoModel
  /\ progressStatus' = "null"
  /\ UNCHANGED <<isLoading, loads, rpc, ragLoad, dbOpen, fixedInLoad>>

\* ragService.initialize() up to await storageService.initialize()
RagInitialize ==
  /\ lpc = "on"
  /\ rpc = "idle"
  /\ rpc' = "storage"
  /\ UNCHANGED <<textGenerator, embedder, currentModel, isLoading, progressStatus, loads,
                 ragLoad, dbOpen, fixedInLoad>>

\* storage is open; the model is loaded unless it is loaded or loading
StorageOpened(api) ==
  /\ lpc = "on"
  /\ rpc = "storage"
  /\ dbOpen' = TRUE
  /\ IF ~IsModelLoaded /\ ~IsModelLoading
     THEN /\ Len(loads) < MaxLoads
          /\ LlmInitialize(DEFAULT_MODEL, api)
          /\ rpc' = "llm"
          /\ ragLoad' = Len(loads) + 1
     ELSE /\ rpc' = "resolved"
          /\ UNCHANGED <<isLoading, currentModel, progressStatus, loads, ragLoad>>
  /\ UNCHANGED <<textGenerator, embedder, fixedInLoad>>

StorageOpenFail ==
  /\ lpc = "on"
  /\ rpc = "storage"
  /\ rpc' = "rejected"
  /\ UNCHANGED <<textGenerator, embedder, currentModel, isLoading, progressStatus, loads,
                 ragLoad, dbOpen, fixedInLoad>>

NextLoad ==
  \/ \E m \in Models : \E api \in StorageApi : InitializeCall(m, api)
  \/ \E i \in 1..MaxLoads : \E enough \in BOOLEAN : EstimateDone(i, enough)
  \/ \E i \in 1..MaxLoads : GeneratorLoaded(i)
  \/ \E i \in 1..MaxLoads : \E e \in LoadErrors : \E hasCaches \in BOOLEAN :
       \E api \in StorageApi : GeneratorFail(i, e, hasCaches, api)
  \/ \E i \in 1..MaxLoads : EmbedderLoaded(i)
  \/ \E i \in 1..MaxLoads : \E e \in LoadErrors : \E hasCaches \in BOOLEAN :
       \E api \in StorageApi : EmbedderFail(i, e, hasCaches, api)
  \/ \E i \in 1..MaxLoads : \E api \in StorageApi : CacheCleared(i, api)
  \/ \E i \in 1..MaxLoads : CacheClearFail(i)
  \/ UnloadModel
  \/ RagInitialize
  \/ \E api \in StorageApi : StorageOpened(api)
  \/ StorageOpenFail

SpecLoad == InitLoad /\ [][NextLoad]_vars

(***************************************************************************)
(* PrivacyStorageService.getChatHistory.  A stored message is kept by its  *)
(* position in key order (what db.getAll yields) and its timestamp.        *)
(***************************************************************************)
StoredHistories ==
  {[k \in 1..Len(ts) |-> [id |-> k, timestamp |-> ts[k]]] : ts \in SeqsUpTo(1..MaxTime, MaxHistory)}

\* .sort((a, b) => a.timestamp.getTime() - b.timestamp.getTime()): stable
RECURSIVE SortByTimestamp(_)
SortByTimestamp(ms) ==
  IF ms = <<>> THEN <<>>
  ELSE LET sorted == SortByTimestamp(SubSeq(ms, 1, Len(ms) - 1))
           m == ms[Len(ms)]
           k == Cardinality({i \in 1..Len(sorted) : sorted[i].timestamp <= m.timestamp})
       IN SubSeq(sorted, 1, k) \o << m >> \o SubSeq(sorted, k + 1, Len(sorted))

\* Array.prototype.slice(start): a negative start counts from the end
Slice(xs, start) ==
  LET from == IF start < 0 THEN Max({Len(xs) + start, 0}) ELSE Min({start, Len(xs)})
  IN SubSeq(xs, from + 1, Len(xs))

GetChatHistory(messages, n) == Slice(SortByTimestamp(messages), 0 - n)

InitHistory ==
  /\ content = <<>>
  /\ docType = "txt"
  /\ chunks = <<>>
  /\ cpc = "off"
  /\ InitJob
  /\ InitStore
  /\ InitSearchOff
  /\ InitChatOff
  /\ InitBatchOff
  /\ InitLoadOff
  /\ gpc = "stored"
  /\ chatStore \in StoredHistories
  /\ gLimit \in 0..MaxLimit
  /\ gHistory = <<>>

GetChatHistoryCall ==
  /\ gpc = "stored"
  /\ gHistory' = GetChatHistory(chatStore, gLimit)
  /\ gpc' = "returned"
  /\ UNCHANGED <<chatStore, gLimit, cvars, jvars, svars, qvars, hvars, bvars, lvars>>

NextHistory == GetChatHistoryCall

SpecHistory == InitHistory /\ [][NextHistory]_vars

(***************************************************************************)
(* Ingestion specification.                                                *)
(***************************************************************************)
Init ==
  /\ content = <<>>
  /\ docType = "txt"
  /\ chunks = <<>>
  /\ cpc = "off"
  /\ InitJob
  /\ InitStore
  /\ InitOther

Next ==
  \/ \E f \in Files : StartJob(f)
  \/ ReadResolve
  \/ ReadFail
  \/ PdfOpened
  \/ PdfOpenFail
  \/ \E p \in 1..MaxPages : PageLoaded(p)
  \/ \E p \in 1..MaxPages : \E t \in OcrTexts : PageOcr(p, t)
  \/ \E p \in 1..MaxPages : PageFail(p)
  \/ PagesDone
  \/ \E c \in 1..MaxChunks : EmbedResolve(c)
  \/ \E c \in 1..MaxChunks : EmbedFail(c)
  \/ EmbeddingDone
  \/ SavePut
  \/ SaveCommit
  \/ SaveFail
  \/ \E id \in 1..nextId : DeleteDocument(id)

Spec == Init /\ [][Next]_vars

(***************************************************************************)
(* Claims about the chunker (checked under SpecChunk).                     *)
(***************************************************************************)
Marker(n) == MarkerHead \o Digits(n) \o MarkerTail

TwoPageText ==
  /\ docType = "pdf"
  /\ PageMarkers(content) = << Marker(1), Marker(2) >>

\* C1: in a 2-page PDF text every chunk cut from text before the
\* `--- Page 2 ---` marker has page 1 and every chunk cut from text at or
\* after that marker has page 2.
C1_PageOfLastMarker ==
  (cpc = "done" /\ TwoPageText) =>
     LET second == IndexOf(content, Marker(2))
         origin == ChunkOrigins(content)
     IN \A i \in 1..Len(chunks) :
          /\ origin[i] < second => chunks[i].page = 1
          /\ origin[i] >= second => chunks[i].page = 2

\* C3 as stated: the [startIndex, endIndex) ranges, in output order, are
\* sorted ascending and pairwise non-overlapping.
C3_NonOverlapping ==
  cpc = "done" =>
     \A i \in 1..(Len(chunks) - 1) : chunks[i + 1].startIndex >= chunks[i].endIndex

\* C3 amended: startIndex is strictly ascending in output order, consecutive
\* chunks overlap by at most OVERLAP characters, and when no paragraph is
\* longer than CHUNK_SIZE the ranges do not overlap at all.
C3_OverlapAtMostOVERLAP ==
  cpc = "done" =>
     /\ \A i \in 1..(Len(chunks) - 1) :
          /\ chunks[i].startIndex < chunks[i + 1].startIndex
          /\ chunks[i + 1].startIndex >= chunks[i].endIndex - OVERLAP
     /\ (\A k \in 1..Len(Paragraphs(content)) : Len(Paragraphs(content)[k].text) <= CHUNK_SIZE)
          => \A i \in 1..(Len(chunks) - 1) : chunks[i + 1].startIndex >= chunks[i].endIndex

\* Witness of C3: a text with a paragraph longer than CHUNK_SIZE has been
\* chunked into at least three windows, and consecutive windows overlap.
C3_Witness ==
  /\ cpc = "done"
  /\ Len(chunks) >= 3
  /\ \E k \in 1..Len(Paragraphs(content)) : Len(Paragraphs(content)[k].text) > CHUNK_SIZE
  /\ \E i \in 1..(Len(chunks) - 1) : chunks[i + 1].startIndex < chunks[i].endIndex

\* C4: startIndex and endIndex are absolute offsets into the text: the slice
\* T[startIndex, endIndex), trimmed, is the chunk's content.
C4_AbsoluteOffsets ==
  cpc = "done" =>
     \A i \in 1..Len(chunks) :
        Trim(SubSeq(content, chunks[i].startIndex + 1, chunks[i].endIndex)) = chunks[i].content

(***************************************************************************)
(* Claims about ingestion and storage (checked under Spec).                *)
(***************************************************************************)
QueryVectors == {<<1, 1>>, <<2, 1>>, <<1, 0>>}
TopKs == {1, 10}
Thresholds == {[num |-> 0, den |-> 1], [num |-> 7, den |-> 10]}

Terminal == {"complete", "error"}

AllEmbedded == \A i \in 1..Len(doc.chunks) : doc.chunks[i].embedding.some

\* C2: once a document ingested by processDocument has been deleted with
\* deleteDocument(document.id), none of its chunks is left in the chunk
\* store, and no search returns one of them.
C2_DeleteCascades ==
  /\ \A c \in chunkStore : c.id \notin deletedChunks
  /\ \A q \in QueryVectors : \A k \in TopKs : \A t \in Thresholds :
       LET found == SearchChunks(chunkStore, q, k, t)
       IN \A i \in 1..Len(found) : found[i].id \notin deletedChunks

\* C6: when the workers of a document with n >= 1 chunks have all settled
\* and no embedding call has failed, every chunk has an embedding.
C6_AllChunksEmbedded ==
  (Len(doc.chunks) >= 1 /\ inflight = {} /\ workersFailed = 0) =>
     (AllEmbedded /\ completedChunks = Len(doc.chunks))

\* Witness of C6: a 3-chunk document (fewer chunks than CONCURRENCY_LIMIT)
\* whose three workers have resolved.
C6_Witness ==
  /\ Len(doc.chunks) = 3
  /\ workersDone = 3
  /\ inflight = {}
  /\ workersFailed = 0
  /\ pc = "saving"

\* C7: storageService.saveDocument is not invoked for a job while a chunk of
\* the document is without an embedding or an embedding call is pending.
C7_SaveAfterBarrier ==
  saveInvoked => (inflight = {} /\ queue = <<>> /\ AllEmbedded)

\* Witness of C7: saveDocument has been invoked for a document with more
\* chunks than workers.
C7_Witness ==
  /\ saveInvoked
  /\ pc = "saving"
  /\ Len(doc.chunks) > CONCURRENCY_LIMIT

C9_TerminalEventIsLast ==
  /\ outcome # "none" => \E i \in 1..Len(events) : events[i].stage \in Terminal
  /\ \A i \in 1..(Len(events) - 1) : events[i].stage \notin Terminal

\* C10: in a successful job the progress values of the delivered events are
\* non-decreasing in delivery order.
C10_ProgressNonDecreasing ==
  outcome = "resolved" =>
     \A i \in 1..(Len(events) - 1) :
        events[i].num * events[i + 1].den <= events[i + 1].num * events[i].den

\* The stores as a concurrent reader (searchChunks, getDocument,
\* getStorageStats) finds them
ReaderDocuments == Visible(documents, PendingDocuments(doc, txPuts))
ReaderChunks == Visible(chunkStore, PendingChunks(doc, txPuts))

\* C11: at every moment, also between the put requests of saveDocument, a
\* reader finds every stored document together with all of its chunk
\* records and every chunk record (of a document not deleted since) together
\* with its document; after a failed saveDocument neither is stored.
C11_SaveIsAtomic ==
  /\ \A d \in ReaderDocuments : \A i \in 1..Len(d.chunks) : d.chunks[i] \in ReaderChunks
  /\ \A c \in ReaderChunks :
       c.id \notin deletedChunks =>
          \E d \in ReaderDocuments : \E i \in 1..Len(d.chunks) : d.chunks[i] = c
  /\ (outcome = "rejected" /\ trigger.stage = "save") =>
       /\ StoredDocument(doc) \notin documents
       /\ \A i \in 1..Len(doc.chunks) : StoredChunk(doc.chunks[i]) \notin chunkStore

\* Witness of C11: the transaction of saveDocument is open, the document
\* record and some, not all, of its chunk records have been put.
C11_Witness ==
  /\ pc = "saving"
  /\ Len(doc.chunks) >= 2
  /\ txPuts >= 2
  /\ txPuts < PutCount(doc)

(***************************************************************************)
(* Claims about the search (checked under SpecSearch).                     *)
(***************************************************************************)
Searched == spc = "done"
SearchedDocuments == spc = "done" /\ searchCall.op = "searchDocuments"

SimEq(x, y) == ~SimLess(x, y) /\ ~SimLess(y, x)

\* The similarities of a sequence of chunks with the query of the call
SimsOf(cs) == [i \in 1..Len(cs) |-> CosineSimilarity(searchCall.q, cs[i].embedding)]

\* C12: searchChunks, called with a query vector, topK >= 0 and a threshold,
\* returns at most topK chunks, each with a non-empty embedding whose
\* similarity with the query is >= threshold.
C12_AtMostTopKAboveThreshold ==
  Searched =>
     /\ Len(hits) <= searchCall.chunkTopK
     /\ \A i \in 1..Len(hits) :
          /\ Len(hits[i].embedding) > 0
          /\ SimGE(SimsOf(hits)[i], searchCall.chunkThreshold)

\* Witness of C12: more chunks meet the threshold than topK, topK of them
\* were returned, and the store holds a chunk that does not qualify.
C12_Witness ==
  /\ Searched
  /\ searchCall.op = "searchChunks"
  /\ searchCall.chunkTopK >= 1
  /\ Len(hits) = searchCall.chunkTopK
  /\ Cardinality({i \in 1..Len(scan) : SimGE(scan[i].similarity, searchCall.chunkThreshold)})
        > searchCall.chunkTopK
  /\ \E c \in chunkStore : Len(c.embedding) = 0

\* C13: every chunk searchDocuments(query, {threshold}) returns has a
\* similarity >= threshold with the query; generateResponse searches with
\* threshold 0.6.
C13_AtLeastRequestedThreshold ==
  SearchedDocuments =>
     \A i \in 1..Len(searchResult.chunks) :
        SimGE(SimsOf(searchResult.chunks)[i], searchCall.threshold)

\* A sequence of chunks is in descending order of similarity, chunks of
\* equal similarity in the order of the stored population
RankedStable(cs) ==
  \A i \in 1..Len(cs) : \A j \in (i + 1)..Len(cs) :
     /\ ~SimLess(SimsOf(cs)[i], SimsOf(cs)[j])
     /\ SimEq(SimsOf(cs)[i], SimsOf(cs)[j]) => cs[i].id < cs[j].id

\* C14: the chunks searchChunks returns, and those searchDocuments returns,
\* are in descending order of similarity, and chunks of equal similarity
\* keep the order of the stored population.
C14_DescendingStable ==
  Searched => RankedStable(hits) /\ RankedStable(searchResult.chunks)

\* Witness of C14: three chunks were returned, two of them of equal
\* similarity and one ranked ahead of a chunk stored before it.
C14_Witness ==
  /\ Searched
  /\ Len(hits) >= 3
  /\ \E i \in 1..Len(hits) : \E j \in (i + 1)..Len(hits) : hits[i].id > hits[j].id
  /\ \E i \in 1..Len(hits) : \E j \in (i + 1)..Len(hits) : SimEq(SimsOf(hits)[i], SimsOf(hits)[j])

\* C15: with a non-empty allow-list searchDocuments returns the min(topK, m)
\* best of the m stored chunks of allowed documents that meet the threshold.
C15_AllowListBeforeRanking ==
  (SearchedDocuments /\ searchCall.documentIds # {}) =>
     LET allowed == {c \in chunkStore : c.documentId \in searchCall.documentIds}
     IN searchResult.chunks =
           SearchChunks(allowed, searchCall.q, searchCall.topK, searchCall.threshold)

\* C16: totalResults is the number of returned chunks, maxRelevanceScore and
\* averageRelevanceScore are the maximum and the mean of their similarities,
\* and both are 0 when nothing is returned.
C16_ResultStatistics ==
  SearchedDocuments =>
     LET cs == searchResult.chunks
         sims == SimsOf(cs)
     IN /\ searchResult.totalResults = Len(cs)
        /\ IF Len(cs) = 0
           THEN /\ searchResult.maxRelevanceScore = ZeroScore
                /\ searchResult.averageRelevanceScore = [terms |-> <<>>, count |-> 1]
           ELSE /\ \E i \in 1..Len(cs) : SimEq(searchResult.maxRelevanceScore, sims[i])
                /\ \A i \in 1..Len(cs) : ~SimLess(searchResult.maxRelevanceScore, sims[i])
                /\ searchResult.averageRelevanceScore = [terms |-> sims, count |-> Len(cs)]

\* C17: cosineSimilarity and calculateSimilarity give 0 for two vectors of
\* equal length when one of them has zero norm.
C17_ZeroNormGivesZero ==
  Searched =>
     \A i \in 1..Len(scan) :
        (/\ Len(scan[i].embedding) = Len(searchCall.q)
         /\ Dot(scan[i].embedding, scan[i].embedding) * Dot(searchCall.q, searchCall.q) = 0)
        => /\ scan[i].similarity = ZeroScore
           /\ CalculateSimilarity(searchCall.q, scan[i].embedding) = ZeroScore

\* C18: a search completes normally only if no stored embedding differs in
\* dimensionality from the query vector; a chunk of another dimensionality
\* is never scored and never returned.
C18_DimensionMismatchRejected ==
  Searched =>
     /\ \A i \in 1..Len(scan) : Len(scan[i].embedding) = Len(searchCall.q)
     /\ \A i \in 1..Len(hits) : Len(hits[i].embedding) = Len(searchCall.q)
     /\ \A i \in 1..Len(searchResult.chunks) :
          Len(searchResult.chunks[i].embedding) = Len(searchCall.q)

(***************************************************************************)
(* Claims about chat and generateResponse (checked under SpecChat).        *)
(***************************************************************************)
\* The failures of generateResponse's own steps: embedding the question,
\* searching, resolving documents, generating text
StepFailures == {"embed", "search", "getDocument", "embedSource", "generate"}

CallEnded == hpc \in {"returned", "rejected"}

\* The messages of the current call in the history, in save order
TurnMessages == SelectSeq(chatHistory, LAMBDA m : m.turn = turn)

\* C19: when a step of generateResponse fails the call does not reject: it
\* returns an assistant message without sources that describes the failure,
\* and that message is in the chat history when the call returns.
C19_FailureIsAnswered ==
  (CallEnded /\ hfailure \in StepFailures) =>
     /\ hpc = "returned"
     /\ hreturned.role = "assistant"
     /\ hreturned.kind = "failure"
     /\ hreturned.sources = <<>>
     /\ \E i \in 1..Len(chatHistory) : chatHistory[i] = hreturned

\* C20: the user message of a chat call is in the history before the search
\* and generation start, and when the call returns the history holds, for
\* that turn, the user message followed by exactly one assistant message,
\* the returned one.
C20_UserThenOneAssistant ==
  entry = "chat" =>
     /\ hpc \notin {"idle", "userSave", "rejected", "returned"} =>
          /\ Len(TurnMessages) = 1
          /\ TurnMessages[1].role = "user"
     /\ hpc = "returned" =>
          /\ Len(TurnMessages) = 2
          /\ TurnMessages[1].role = "user"
          /\ TurnMessages[2].role = "assistant"
          /\ TurnMessages[2] = hreturned

\* Witness of C20: a chat call returned an answer with sources after its
\* user message and its answer were saved.
C20_Witness ==
  /\ entry = "chat"
  /\ hpc = "returned"
  /\ hreturned.kind = "answer"
  /\ Len(hreturned.sources) >= 1
  /\ Len(chatHistory) >= 2

(***************************************************************************)
(* Claims about the embedding workers and the returned Document (checked   *)
(* under Spec).                                                            *)
(***************************************************************************)
\* The job has entered the embedding stage of a document with chunks
WorkersStarted == doc # NoDoc /\ Len(doc.chunks) >= 1

\* min(5, n)
MinFiveOr(n) == IF n < 5 THEN n ELSE 5

\* C22: for a document with n chunks exactly min(5, n) workers are started
\* (each is waiting for an embedding, has resolved or has rejected), and at
\* no moment are more than min(5, n) embedding calls in flight.
C22_AtMostFiveInFlight ==
  WorkersStarted =>
     /\ Cardinality(inflight) + workersDone + workersFailed = MinFiveOr(Len(doc.chunks))
     /\ Cardinality(inflight) <= MinFiveOr(Len(doc.chunks))

\* Witness of C22: a document of more than five chunks, five calls in
\* flight and chunks still waiting in the queue.
C22_Witness ==
  /\ WorkersStarted
  /\ Len(doc.chunks) > 5
  /\ Cardinality(inflight) = 5
  /\ Len(queue) >= 1

\* C25: every chunk of the Document returned by
\* documentProcessor.processDocument, and of every stored document, has the
\* id of that document as its documentId.
C25_ChunksCarryDocumentId ==
  /\ \A i \in 1..Len(doc.chunks) : doc.chunks[i].documentId = doc.id
  /\ \A d \in documents : \A i \in 1..Len(d.chunks) : d.chunks[i].documentId = d.id

\* C27: the embedding function is called at most once per chunk, and, when
\* all workers have resolved, exactly once per chunk.
C27_EmbeddedOncePerChunk ==
  /\ \A i \in 1..Len(embedCalls) : embedCalls[i] <= 1
  /\ (WorkersStarted /\ workersDone = MinFiveOr(Len(doc.chunks))) =>
        \A i \in 1..Len(doc.chunks) : embedCalls[i] = 1

\* Witness of C27: all workers of a document of more than five chunks have
\* resolved, so workers took chunks from the queue after their first one.
C27_Witness ==
  /\ WorkersStarted
  /\ Len(doc.chunks) > 5
  /\ workersDone = 5
  /\ workersFailed = 0

(***************************************************************************)
(* Further claims about generateResponse (checked under SpecChat).         *)
(***************************************************************************)
\* C23: within one generateResponse call getDocument is called at most once
\* per documentId of the result chunks, whether the document is found or not.
C23_OneLookupPerDocument ==
  \A i \in 1..Len(docLookups) : \A j \in (i + 1)..Len(docLookups) :
     docLookups[i] # docLookups[j]

(***************************************************************************)
(* Claims about batch ingestion (checked under SpecBatch).                 *)
(***************************************************************************)
BatchOver == bpc \in {"returned", "failed"}

\* C21: processMultipleDocuments calls processDocument for every file in
\* input order whatever the outcome of the earlier calls, never rejects,
\* and returns the documents of the calls that resolved, in input order;
\* for ragService these are the documents in storage.
C21_BatchContinues ==
  caller \in {"ragService", "documentProcessor"} =>
     /\ bpc # "failed"
     /\ bpc = "returned" =>
          /\ attempts = [i \in 1..Len(batch) |-> i]
          /\ {results[i].index : i \in 1..Len(results)} = resolved
          /\ \A i \in 1..Len(results) : \A j \in (i + 1)..Len(results) :
                results[i].index < results[j].index
          /\ \A i \in 1..Len(results) : results[i].name = batch[results[i].index].name
          /\ caller = "ragService" =>
                {results[i].id : i \in 1..Len(results)} = {d.id : d \in documents}

\* Witness of C21: a batch of three files has returned; a call failed and
\* calls before and after it resolved.
C21_Witness ==
  /\ caller = "ragService"
  /\ bpc = "returned"
  /\ Len(batch) >= 3
  /\ \E i \in 1..Len(batch) : i \notin resolved /\ (i - 1) \in resolved /\ (i + 1) \in resolved

\* C24: in App.handleDocumentUpload the failure of one file does not abort
\* the batch: processDocument is called for every file of the batch and
\* every document of a resolved call is added to the document list.
C24_UploadContinues ==
  (caller = "App" /\ BatchOver) =>
     /\ attempts = [i \in 1..Len(batch) |-> i]
     /\ {results[i].index : i \in 1..Len(results)} = resolved


(***************************************************************************)
(* Claims about model loading (checked under SpecLoad).                    *)
(***************************************************************************)
\* The initialize calls whose load attempt has started and not settled
InProgress == {i \in 1..Len(loads) : loads[i].pc \in {"estimate", "generator", "embedder", "clearing"}}

\* C26: at most one model load is in progress at any time: while a load
\* attempt (the retry after a cache-corruption error included) has not
\* settled, isModelLoading() is true and every other initialize call is
\* rejected, and once it has settled isModelLoading() is false.
C26_OneLoadAtATime ==
  /\ Cardinality(InProgress) <= 1
  /\ IsModelLoading <=> InProgress # {}
  /\ \A i \in 1..Len(loads) : loads[i].cause = ALREADY_LOADING => loads[i].pc = "rejected"

\* C28: when ragService.initialize() resolves, storage is initialized and
\* isModelLoaded() is true, whether or not a model load was in progress when
\* it was called.
C28_InitializedMeansLoaded ==
  [][(rpc # "resolved" /\ rpc' = "resolved") => (dbOpen' /\ IsModelLoaded')]_vars

\* C29: whenever isModelLoaded() is true, getCurrentModel() names the model
\* whose text generator is held and the download status is 'ready'.
C29_LoadedModelIsCurrent ==
  IsModelLoaded => (GetCurrentModel = textGenerator /\ progressStatus = "ready")

(***************************************************************************)
(* Claims about the chat history (checked under SpecHistory).              *)
(***************************************************************************)
\* C30: getChatHistory(limit) returns at most limit messages, the limit most
\* recent ones of the store (all of them if there are fewer), in
\* non-decreasing timestamp order.
C30_MostRecentLimit ==
  gpc = "returned" =>
    LET returned == {gHistory[i].id : i \in 1..Len(gHistory)}
        left == {chatStore[i] : i \in 1..Len(chatStore)} \ {gHistory[i] : i \in 1..Len(gHistory)}
    IN /\ Len(gHistory) = Min({gLimit, Len(chatStore)})
       /\ Cardinality(returned) = Len(gHistory)
       /\ \A i \in 1..Len(gHistory) : gHistory[i] \in {chatStore[k] : k \in 1..Len(chatStore)}
       /\ \A i \in 1..Len(gHistory) : \A m \in left : m.timestamp <= gHistory[i].timestamp
       /\ \A i \in 1..(Len(gHistory) - 1) : gHistory[i].timestamp <= gHistory[i + 1].timestamp

=============================================================================
